---------------------------- MODULE Spec2Model ----------------------------
(***************************************************************************)
(* State-transition core of the Tetris engine (state.ts: src/src/main.ts   *)
(* lines 630-1014, with types.ts: src/unnamed/part_000 lines 118-234 and    *)
(* util.ts: src/src/util.ts).                                               *)
(*                                                                         *)
(* Coordinates are 0-based as in the source; TLA+ sequences are 1-based,   *)
(* so every array access goes through At, which also gives JavaScript's    *)
(* `undefined` for an index outside the array.                             *)
(***************************************************************************)
EXTENDS Integers, Sequences, FiniteSets, TLC

(***************************************************************************)
(* Constants (types.ts)                                                    *)
(***************************************************************************)
GRID_WIDTH == 10
GRID_HEIGHT == 20

\* JavaScript's `undefined`: what an array read outside 0..length-1 returns.
Undefined == -1

\* arr[i] of JavaScript for a 0-based index i.
At(arr, i) == IF i >= 0 /\ i < Len(arr) THEN arr[i + 1] ELSE Undefined

Tetrominos ==
  << << <<0, 0, 0, 0>>, <<1, 1, 1, 1>>, <<0, 0, 0, 0>>, <<0, 0, 0, 0>> >>,
     << <<2, 0, 0>>, <<2, 2, 2>>, <<0, 0, 0>> >>,
     << <<0, 0, 3>>, <<3, 3, 3>>, <<0, 0, 0>> >>,
     << <<4, 4>>, <<4, 4>> >>,
     << <<0, 5, 5>>, <<5, 5, 0>>, <<0, 0, 0>> >>,
     << <<0, 6, 0>>, <<6, 6, 6>>, <<0, 0, 0>> >>,
     << <<7, 7, 0>>, <<0, 7, 7>>, <<0, 0, 0>> >> >>

(***************************************************************************)
(* RNG (util.ts).  JavaScript numbers are IEEE-754 doubles: a * seed is    *)
(* rounded to 53 significant bits (ties to even), so is the sum with c,    *)
(* and % is exact.  TLC's integers are 32 bits wide, so the product is     *)
(* computed on base-2^15 limbs and rounded on its bit string.              *)
(***************************************************************************)
LimbBase == 32768
LimbBits == 15
DoubleBits == 53
\* RNG.a = 1103515245 = 1 * 2^30 + 908 * 2^15 + 20077
RNG_a == <<20077, 908, 1>>
RNG_c == 12345
\* RNG.m - 1 = 2^31 - 1 = 7 * 306783378 + 1
RNG_m_minus_1 == 2147483647

\* A number below 2^45 as three little-endian limbs; an int below 2^31 as its limbs.
Limbs(n) == <<n % LimbBase, (n \div LimbBase) % LimbBase, n \div (LimbBase * LimbBase)>>

LimbAt(s, k) == IF k >= 1 /\ k <= Len(s) THEN s[k] ELSE 0

RECURSIVE MulLimbs(_, _, _, _)
\* Schoolbook product RNG_a * s, limb k with the carry of limb k-1.
MulLimbs(s, k, carry, acc) ==
  IF k > 6 THEN acc
  ELSE LET t == LimbAt(RNG_a, 1) * LimbAt(s, k)
                + LimbAt(RNG_a, 2) * LimbAt(s, k - 1)
                + LimbAt(RNG_a, 3) * LimbAt(s, k - 2) + carry
       IN  MulLimbs(s, k + 1, t \div LimbBase, Append(acc, t % LimbBase))

\* The number of bits of a limb sequence (0 for zero).
BitLen(d) ==
  LET top == {i \in 1..Len(d) : d[i] # 0}
      t   == CHOOSE i \in top : \A j \in top : j <= i
  IN  IF top = {} THEN 0
      ELSE LimbBits * (t - 1) + Cardinality({b \in 0..(LimbBits - 1) : 2 ^ b <= d[t]})

RECURSIVE AddAt(_, _, _)
\* d + v * LimbBase^(q-1)
AddAt(d, q, v) ==
  IF v = 0 \/ q > Len(d) THEN d
  ELSE AddAt([d EXCEPT ![q] = (d[q] + v) % LimbBase], q + 1, (d[q] + v) \div LimbBase)

\* d without its k lowest bits, rounded to nearest, ties to even: bit k-1 is
\* the half, the bits below it are sticky, bit k is the last bit kept.
RoundBits(d, k) ==
  LET q      == (k \div LimbBits) + 1
      r      == k % LimbBits
      hq     == ((k - 1) \div LimbBits) + 1
      hr     == (k - 1) % LimbBits
      half   == (d[hq] \div (2 ^ hr)) % 2 = 1
      sticky == d[hq] % (2 ^ hr) # 0 \/ \E i \in 1..(hq - 1) : d[i] # 0
      odd    == (d[q] \div (2 ^ r)) % 2 = 1
      trunc  == [i \in 1..Len(d) |-> IF i < q THEN 0
                                     ELSE IF i = q THEN d[i] - (d[i] % (2 ^ r))
                                     ELSE d[i]]
  IN  IF half /\ (sticky \/ odd) THEN AddAt(trunc, q, 2 ^ r) ELSE trunc

\* Round to the nearest double (53 significant bits).
RoundDouble(d) ==
  IF BitLen(d) <= DoubleBits THEN d ELSE RoundBits(d, BitLen(d) - DoubleBits)

\* x % RNG.m for m = 2^31: the low 31 bits.
ModM(d) == d[1] + d[2] * LimbBase + (d[3] % 2) * (LimbBase * LimbBase)

\* RNG.hash on a limb sequence: (a * seed + c) % m in double arithmetic.
hashLimbs(s) ==
  ModM(RoundDouble(AddAt(RoundDouble(MulLimbs(s, 1, 0, <<>>)), 1, RNG_c)))

\* RNG.hash = (seed) => (RNG.a * seed + RNG.c) % RNG.m
hash(seed) == hashLimbs(Limbs(seed))

\* Math.floor(RNG.scale(n) * Tetrominos.length), with scale(n) = n / (m - 1).
\* floor(7n / (m-1)) is the number of k in 1..7 with k(m-1) <= 7n, that is with
\* k * 306783378 + 1 <= n since m - 1 = 7 * 306783378 + 1; 7n/(m-1) is an integer
\* only for n = 0 and n = m - 1, and elsewhere it is 1/(m-1) away from one, far
\* more than the rounding error of the two double operations.
scaleIndex(n) ==
  Cardinality({k \in 1..Len(Tetrominos) :
                 k * (RNG_m_minus_1 \div Len(Tetrominos)) + 1 <= n})

\* RNG.scale = (hash) => hash / (RNG.m - 1), as the fraction <<numerator,
\* denominator>>.
scale(n) == <<n, RNG_m_minus_1>>

\* The tetromino read when randomTetromino indexes past the catalog
\* (JavaScript's undefined, which has no rows).
UndefinedTetromino == <<>>

\* randomTetromino: Tetrominos[Math.floor(RNG.scale(randomNumber) * Tetrominos.length)]
randomTetromino(randomNumber) ==
  IF scaleIndex(randomNumber) < Len(Tetrominos)
  THEN Tetrominos[scaleIndex(randomNumber) + 1]
  ELSE UndefinedTetromino

(***************************************************************************)
(* State (types.ts).  The model adds two bookkeeping fields to the record  *)
(* the functions pass along: err, set when the JavaScript would throw a    *)
(* TypeError (a property read on undefined), and landed, the argument of   *)
(* the tetrominoLanded call made while the event was processed.            *)
(***************************************************************************)
Throw(s) == [s EXCEPT !.err = TRUE]

\* previousState = null
Null == [null |-> TRUE]

clearGame == [i \in 1..GRID_HEIGHT |-> [j \in 1..GRID_WIDTH |-> 0]]

Max(a, b) == IF a >= b THEN a ELSE b

\* tetromino.findIndex(row => row.some(block => block !== 0)), -1 when there is none
findIndexNonEmpty(tetromino) ==
  LET rows == {i \in 0..(Len(tetromino) - 1) :
                 \E j \in 1..Len(tetromino[i + 1]) : tetromino[i + 1][j] # 0}
  IN  IF rows = {} THEN -1 ELSE CHOOSE i \in rows : \A k \in rows : i <= k

\* Variant: the spawn offset taken one row too high.
findFirstNonEmptyRowIndex_rowAbove(tetromino) == -(findIndexNonEmpty(tetromino) + 1)

findFirstNonEmptyRowIndex(tetromino) == -findIndexNonEmpty(tetromino)

findLastNonEmptyRowIndex(state) ==
  LET rows == {i \in 0..(Len(state.currentTetromino) - 1) :
                 \E j \in 1..Len(state.currentTetromino[i + 1]) :
                    state.currentTetromino[i + 1][j] # 0}
  IN  IF rows = {} THEN -1 ELSE CHOOSE i \in rows : \A k \in rows : k <= i

\* Variant: the ground taken one row too high.
isOnGround_rowAbove(state) ==
  state.row + findLastNonEmptyRowIndex(state) = GRID_HEIGHT - 2

isOnGround(state) ==
  state.row + findLastNonEmptyRowIndex(state) = GRID_HEIGHT - 1

\* isCollidingAtCell: "t" / "f", or "x" when grid[row] is undefined and the
\* column read throws.
isCollidingAtCell(state, i, j, deltaRow, deltaCol) ==
  IF state.currentTetromino[i + 1][j + 1] # 0
  THEN IF isOnGround(state) THEN "f"
       ELSE IF i + state.row + deltaRow < 0
               \/ i + state.row + deltaRow >= Len(state.grid) THEN "x"
       ELSE IF At(state.grid[i + state.row + deltaRow + 1], j + state.col + deltaCol) # 0
            THEN "t" ELSE "f"
  ELSE "f"

\* The outcome of the first cell, in row-major order, that is not "f".
firstColliding(state, deltaRow, deltaCol, hits) ==
  IF hits = {} THEN "f"
  ELSE isCollidingAtCell(state,
                         (CHOOSE k \in hits : \A h \in hits : k <= h)
                            \div Len(state.currentTetromino),
                         (CHOOSE k \in hits : \A h \in hits : k <= h)
                            % Len(state.currentTetromino),
                         deltaRow, deltaCol)

\* currentTetromino.some((row, i) => row.some((_, j) => isCollidingAtCell(...))):
\* cells are visited in row-major order and the visit stops at the first true
\* (or at the first throw).
someCellColliding(state, deltaRow, deltaCol) ==
  firstColliding(state, deltaRow, deltaCol,
    {k \in 0..(Len(state.currentTetromino) * Len(state.currentTetromino) - 1) :
       isCollidingAtCell(state, k \div Len(state.currentTetromino),
                         k % Len(state.currentTetromino), deltaRow, deltaCol) # "f"})

\* A test that came out "x" throws, "t" is true, "f" is false.
IfColliding(outcome, thrown, yes, no) ==
  IF outcome = "x" THEN thrown ELSE IF outcome = "t" THEN yes ELSE no

\* Variant: the row offset left out, the test looks at the piece's own cells.
isStackingOnBlocks_noOffset(state) == someCellColliding(state, 0, 0)

isStackingOnBlocks(state) == someCellColliding(state, 1, 0)

isSideColliding(state, deltaCol) == someCellColliding(state, 0, deltaCol)

\* Variant: the colour of the piece always wins.
updatePosition_overwrite(position, column) == column

updatePosition(position, column) == IF position = 0 THEN column ELSE position

\* Variant: a piece reaching over a side wall is put back by one column.
boundX_oneColumn(state) ==
  IF state.err THEN state
  ELSE IF state.col < 0
  THEN IF \A i \in 1..Len(state.currentTetromino) :
            Len(state.currentTetromino[i]) > 0
            /\ At(state.currentTetromino[i], -state.col - 1) = 0
       THEN state
       ELSE [state EXCEPT !.col = state.col + 1]
  ELSE IF state.col > GRID_WIDTH - Len(state.currentTetromino)
  THEN IF \A i \in 1..Len(state.currentTetromino) :
            Len(state.currentTetromino[i]) > 0
            /\ At(state.currentTetromino[i], GRID_WIDTH - state.col) = 0
       THEN state
       ELSE [state EXCEPT !.col = state.col - 1]
  ELSE state

boundX(state) ==
  IF state.err THEN state
  ELSE IF state.col < 0
  THEN IF \A i \in 1..Len(state.currentTetromino) :
            Len(state.currentTetromino[i]) > 0
            /\ At(state.currentTetromino[i], -state.col - 1) = 0
       THEN state
       ELSE [state EXCEPT !.col = 0]
  ELSE IF state.col > GRID_WIDTH - Len(state.currentTetromino)
  THEN IF \A i \in 1..Len(state.currentTetromino) :
            Len(state.currentTetromino[i]) > 0
            /\ At(state.currentTetromino[i], GRID_WIDTH - state.col) = 0
       THEN state
       ELSE [state EXCEPT !.col = GRID_WIDTH - Len(state.currentTetromino)]
  ELSE state

boundY(state) ==
  IF state.err THEN state
  ELSE IF state.row < 0
  THEN IF -state.row - 1 >= Len(state.currentTetromino) THEN Throw(state)
       ELSE IF \A j \in 1..Len(state.currentTetromino[-state.row]) :
                  state.currentTetromino[-state.row][j] = 0
       THEN state
       ELSE [state EXCEPT !.row = 0]
  ELSE IF state.row > GRID_HEIGHT - Len(state.currentTetromino)
  THEN IF GRID_HEIGHT - state.row < 0
          \/ GRID_HEIGHT - state.row >= Len(state.currentTetromino) THEN Throw(state)
       ELSE IF \A j \in 1..Len(state.currentTetromino[GRID_HEIGHT - state.row + 1]) :
                  state.currentTetromino[GRID_HEIGHT - state.row + 1][j] = 0
       THEN state
       ELSE [state EXCEPT !.row = GRID_HEIGHT - Len(state.currentTetromino)]
  ELSE state

checkBounds(state) == boundY(boundX(state))

\* The fields of State (types.ts), without the model's bookkeeping.
Core(s) ==
  [grid |-> s.grid, level |-> s.level, score |-> s.score,
   linesCleared |-> s.linesCleared, gameEnd |-> s.gameEnd,
   col |-> s.col, row |-> s.row,
   currentTetromino |-> s.currentTetromino,
   nextTetromino |-> s.nextTetromino, seed |-> s.seed]

\* A State as the functions pass it along: nothing thrown, nothing landed yet.
Lift(s) ==
  [grid |-> s.grid, level |-> s.level, score |-> s.score,
   linesCleared |-> s.linesCleared, gameEnd |-> s.gameEnd,
   col |-> s.col, row |-> s.row,
   currentTetromino |-> s.currentTetromino,
   nextTetromino |-> s.nextTetromino, seed |-> s.seed,
   err |-> FALSE, landed |-> <<>>]

\* Variant: the successor state's seed is hashed from the local seed (Date.now())
\* instead of previousState.seed.
createNewState_clockSeed(previousState, now) ==
  LET seed == now
      initial(newTetromino1, randomNumber2) ==
        [grid |-> clearGame, level |-> 0, score |-> 0, linesCleared |-> 0,
         gameEnd |-> FALSE,
         col |-> (GRID_WIDTH - Len(newTetromino1)) \div 2,
         row |-> findFirstNonEmptyRowIndex(newTetromino1),
         currentTetromino |-> newTetromino1,
         nextTetromino |-> randomTetromino(randomNumber2),   \* newTetromino2
         seed |-> hash(randomNumber2),
         err |-> newTetromino1 = UndefinedTetromino,         \* undefined.length
         landed |-> <<>>]
      from(randomNumber1) ==
        initial(randomTetromino(randomNumber1), hash(randomNumber1))
  IN  IF previousState # Null
      THEN IF previousState.nextTetromino = UndefinedTetromino
           THEN Throw(previousState)       \* undefined.length
           ELSE [previousState EXCEPT
                   !.col = (GRID_WIDTH - Len(previousState.nextTetromino)) \div 2,
                   !.row = findFirstNonEmptyRowIndex(previousState.nextTetromino),
                   !.currentTetromino = previousState.nextTetromino,
                   !.nextTetromino = randomTetromino(previousState.seed),
                   !.seed = hashLimbs(seed)]
      ELSE from(hashLimbs(seed))

\* Variant: the successor's nextTetromino is selected from the hash of the
\* stored seed instead of the stored seed.
createNewState_hashedNext(previousState, now) ==
  LET seed == now
      initial(newTetromino1, randomNumber2) ==
        [grid |-> clearGame, level |-> 0, score |-> 0, linesCleared |-> 0,
         gameEnd |-> FALSE,
         col |-> (GRID_WIDTH - Len(newTetromino1)) \div 2,
         row |-> findFirstNonEmptyRowIndex(newTetromino1),
         currentTetromino |-> newTetromino1,
         nextTetromino |-> randomTetromino(randomNumber2),   \* newTetromino2
         seed |-> hash(randomNumber2),
         err |-> newTetromino1 = UndefinedTetromino,         \* undefined.length
         landed |-> <<>>]
      from(randomNumber1) ==
        initial(randomTetromino(randomNumber1), hash(randomNumber1))
  IN  IF previousState # Null
      THEN IF previousState.nextTetromino = UndefinedTetromino
           THEN Throw(previousState)       \* undefined.length
           ELSE [previousState EXCEPT
                   !.col = (GRID_WIDTH - Len(previousState.nextTetromino)) \div 2,
                   !.row = findFirstNonEmptyRowIndex(previousState.nextTetromino),
                   !.currentTetromino = previousState.nextTetromino,
                   !.nextTetromino = randomTetromino(hash(previousState.seed)),
                   !.seed = hash(previousState.seed)]
      ELSE from(hashLimbs(seed))

\* Variant: the initial state stores randomNumber2, the value its nextTetromino
\* was selected from, instead of the hash of it.
createNewState_reusesHash(previousState, now) ==
  LET seed == now
      initial(newTetromino1, randomNumber2) ==
        [grid |-> clearGame, level |-> 0, score |-> 0, linesCleared |-> 0,
         gameEnd |-> FALSE,
         col |-> (GRID_WIDTH - Len(newTetromino1)) \div 2,
         row |-> findFirstNonEmptyRowIndex(newTetromino1),
         currentTetromino |-> newTetromino1,
         nextTetromino |-> randomTetromino(randomNumber2),   \* newTetromino2
         seed |-> randomNumber2,
         err |-> newTetromino1 = UndefinedTetromino,         \* undefined.length
         landed |-> <<>>]
      from(randomNumber1) ==
        initial(randomTetromino(randomNumber1), hash(randomNumber1))
  IN  IF previousState # Null
      THEN IF previousState.nextTetromino = UndefinedTetromino
           THEN Throw(previousState)       \* undefined.length
           ELSE [previousState EXCEPT
                   !.col = (GRID_WIDTH - Len(previousState.nextTetromino)) \div 2,
                   !.row = findFirstNonEmptyRowIndex(previousState.nextTetromino),
                   !.currentTetromino = previousState.nextTetromino,
                   !.nextTetromino = randomTetromino(previousState.seed),
                   !.seed = hash(previousState.seed)]
      ELSE from(hashLimbs(seed))

\* Variant: the centre column rounded up.
createNewState_ceilCentre(previousState, now) ==
  LET seed == now
      initial(newTetromino1, randomNumber2) ==
        [grid |-> clearGame, level |-> 0, score |-> 0, linesCleared |-> 0,
         gameEnd |-> FALSE,
         col |-> (GRID_WIDTH - Len(newTetromino1) + 1) \div 2,
         row |-> findFirstNonEmptyRowIndex(newTetromino1),
         currentTetromino |-> newTetromino1,
         nextTetromino |-> randomTetromino(randomNumber2),   \* newTetromino2
         seed |-> hash(randomNumber2),
         err |-> newTetromino1 = UndefinedTetromino,         \* undefined.length
         landed |-> <<>>]
      from(randomNumber1) ==
        initial(randomTetromino(randomNumber1), hash(randomNumber1))
  IN  IF previousState # Null
      THEN IF previousState.nextTetromino = UndefinedTetromino
           THEN Throw(previousState)       \* undefined.length
           ELSE [previousState EXCEPT
                   !.col = (GRID_WIDTH - Len(previousState.nextTetromino) + 1) \div 2,
                   !.row = findFirstNonEmptyRowIndex(previousState.nextTetromino),
                   !.currentTetromino = previousState.nextTetromino,
                   !.nextTetromino = randomTetromino(previousState.seed),
                   !.seed = hash(previousState.seed)]
      ELSE from(hashLimbs(seed))

\* createNewState(previousState); now is the value Date.now() returns, as limbs.
\* The hashes of now are computed in both branches and used in the second only;
\* randomNumber1 = hash(seed), randomNumber2 = hash(randomNumber1).
createNewState(previousState, now) ==
  LET seed == now
      initial(newTetromino1, randomNumber2) ==
        [grid |-> clearGame, level |-> 0, score |-> 0, linesCleared |-> 0,
         gameEnd |-> FALSE,
         col |-> (GRID_WIDTH - Len(newTetromino1)) \div 2,
         row |-> findFirstNonEmptyRowIndex(newTetromino1),
         currentTetromino |-> newTetromino1,
         nextTetromino |-> randomTetromino(randomNumber2),   \* newTetromino2
         seed |-> hash(randomNumber2),
         err |-> newTetromino1 = UndefinedTetromino,         \* undefined.length
         landed |-> <<>>]
      from(randomNumber1) ==
        initial(randomTetromino(randomNumber1), hash(randomNumber1))
  IN  IF previousState # Null
      THEN IF previousState.nextTetromino = UndefinedTetromino
           THEN Throw(previousState)       \* undefined.length
           ELSE [previousState EXCEPT
                   !.col = (GRID_WIDTH - Len(previousState.nextTetromino)) \div 2,
                   !.row = findFirstNonEmptyRowIndex(previousState.nextTetromino),
                   !.currentTetromino = previousState.nextTetromino,
                   !.nextTetromino = randomTetromino(previousState.seed),
                   !.seed = hash(previousState.seed)]
      ELSE from(hashLimbs(seed))

\* The piece cells (value v at shape row i) that tetrominoLanded writes into
\* grid row r, as pairs <<column, v>>.
landingCells(s, r) ==
  {<<j + s.col, s.currentTetromino[r - s.row + 1][j + 1]>> :
     j \in {k \in 0..(Len(s.currentTetromino) - 1) :
              r - s.row >= 0 /\ r - s.row < Len(s.currentTetromino)
              /\ s.currentTetromino[r - s.row + 1][k + 1] # 0}}

\* Row r of newGrid after the two forEach loops of tetrominoLanded: the copy of
\* the old row into a row of GRID_WIDTH zeros, then the piece's nonzero cells
\* through updatePosition.  A write at a column past the end lengthens the
\* JavaScript array (the cells between read undefined), a write at a negative
\* column sets a property and leaves the array as it is.
landedRow(s, r) ==
  LET old == IF r < Len(s.grid) THEN s.grid[r + 1] ELSE <<>>
      width(copy, cells) ==
        IF cells = {} THEN Len(copy)
        ELSE Max(Len(copy),
                 1 + CHOOSE c \in {x[1] : x \in cells} :
                       \A d \in {x[1] : x \in cells} : d <= c)
      write(copy, cells) ==
        [c \in 1..width(copy, cells) |->
           IF \E x \in cells : x[1] = c - 1
           THEN updatePosition(At(copy, c - 1),
                               (CHOOSE x \in cells : x[1] = c - 1)[2])
           ELSE At(copy, c - 1)]
  IN  write([c \in 1..Max(GRID_WIDTH, Len(old)) |->
               IF c <= Len(old) THEN old[c] ELSE 0],
            landingCells(s, r))

\* Variant: gameEnd is assigned the outcome of the stacking test, so a piece
\* that spawns free clears the flag.
tetrominoLanded_assignsGameEnd(s, now) ==
  IF s.err THEN s
  ELSE IF \E i \in 0..(Len(s.currentTetromino) - 1) :
            /\ \E j \in 1..Len(s.currentTetromino[i + 1]) :
                  s.currentTetromino[i + 1][j] # 0
            /\ (i + s.row < 0 \/ i + s.row >= GRID_HEIGHT)
  THEN Throw(s)                            \* newGrid[i + s.row] is undefined
  ELSE LET newGrid == [r \in 1..GRID_HEIGHT |-> landedRow(s, r - 1)]
           spawned(newState) ==
             IF newState.err THEN newState
             ELSE IfColliding(isStackingOnBlocks(newState), Throw(newState),
                              [newState EXCEPT !.gameEnd = TRUE],
                              [newState EXCEPT !.gameEnd = FALSE])
       IN  spawned(createNewState(
                     [s EXCEPT !.grid = newGrid,
                               !.landed = <<[row |-> s.row, col |-> s.col,
                                             shape |-> s.currentTetromino,
                                             grid |-> s.grid,
                                             gameEnd |-> s.gameEnd]>>],
                     now))

\* Variant: the game ends when the spawned piece overlaps a block, not when it
\* has a block right below one of its cells.
tetrominoLanded_endsOnOverlap(s, now) ==
  IF s.err THEN s
  ELSE IF \E i \in 0..(Len(s.currentTetromino) - 1) :
            /\ \E j \in 1..Len(s.currentTetromino[i + 1]) :
                  s.currentTetromino[i + 1][j] # 0
            /\ (i + s.row < 0 \/ i + s.row >= GRID_HEIGHT)
  THEN Throw(s)                            \* newGrid[i + s.row] is undefined
  ELSE LET newGrid == [r \in 1..GRID_HEIGHT |-> landedRow(s, r - 1)]
           spawned(newState) ==
             IF newState.err THEN newState
             ELSE IfColliding(isSideColliding(newState, 0), Throw(newState),
                              [newState EXCEPT !.gameEnd = TRUE], newState)
       IN  spawned(createNewState(
                     [s EXCEPT !.grid = newGrid,
                               !.landed = <<[row |-> s.row, col |-> s.col,
                                             shape |-> s.currentTetromino,
                                             grid |-> s.grid,
                                             gameEnd |-> s.gameEnd]>>],
                     now))

\* Variant: the landed piece is not written into the grid.
tetrominoLanded_dropsPiece(s, now) ==
  IF s.err THEN s
  ELSE LET spawned(newState) ==
             IF newState.err THEN newState
             ELSE IfColliding(isStackingOnBlocks(newState), Throw(newState),
                              [newState EXCEPT !.gameEnd = TRUE], newState)
       IN  spawned(createNewState(
                     [s EXCEPT !.landed = <<[row |-> s.row, col |-> s.col,
                                             shape |-> s.currentTetromino,
                                             grid |-> s.grid,
                                             gameEnd |-> s.gameEnd]>>],
                     now))

\* Lands the current tetromino and adds it to grid.
tetrominoLanded(s, now) ==
  IF s.err THEN s
  ELSE IF \E i \in 0..(Len(s.currentTetromino) - 1) :
            /\ \E j \in 1..Len(s.currentTetromino[i + 1]) :
                  s.currentTetromino[i + 1][j] # 0
            /\ (i + s.row < 0 \/ i + s.row >= GRID_HEIGHT)
  THEN Throw(s)                            \* newGrid[i + s.row] is undefined
  ELSE LET newGrid == [r \in 1..GRID_HEIGHT |-> landedRow(s, r - 1)]
           spawned(newState) ==
             IF newState.err THEN newState
             ELSE IfColliding(isStackingOnBlocks(newState), Throw(newState),
                              [newState EXCEPT !.gameEnd = TRUE], newState)
       IN  spawned(createNewState(
                     [s EXCEPT !.grid = newGrid,
                               !.landed = <<[row |-> s.row, col |-> s.col,
                                             shape |-> s.currentTetromino,
                                             grid |-> s.grid,
                                             gameEnd |-> s.gameEnd]>>],
                     now))

checkStackingOnBlocks(state, now) ==
  IF state.err THEN state
  ELSE IfColliding(isStackingOnBlocks(state), Throw(state),
                   tetrominoLanded(state, now), state)

\* Variant: the piece is moved without the stacking test at the new column.
checkSideCollisions_noStacking(state, direction, now) ==
  LET deltaCol == IF direction = "left" THEN -1 ELSE 1
  IN  IF state.err THEN state
      ELSE IfColliding(isSideColliding(state, deltaCol), Throw(state), state,
                       [state EXCEPT !.col = state.col + deltaCol])

\* Variant: the column deltas of left and right exchanged.
checkSideCollisions_swapped(state, direction, now) ==
  LET deltaCol == IF direction = "left" THEN 1 ELSE -1
  IN  IF state.err THEN state
      ELSE IfColliding(isSideColliding(state, deltaCol), Throw(state), state,
                       checkStackingOnBlocks([state EXCEPT !.col = state.col + deltaCol],
                                             now))

checkSideCollisions(state, direction, now) ==
  LET deltaCol == IF direction = "left" THEN -1 ELSE 1
  IN  IF state.err THEN state
      ELSE IfColliding(isSideColliding(state, deltaCol), Throw(state), state,
                       checkStackingOnBlocks([state EXCEPT !.col = state.col + deltaCol],
                                             now))

\* Variant: without the test for the ground, a piece lands only by stacking.
checkCollisions_noGround(state, direction, now) ==
  IF state.err THEN state
  ELSE IF direction # "none" THEN checkSideCollisions(state, direction, now)
  ELSE checkStackingOnBlocks(state, now)

\* direction is "left", "right" or "none" (the default null).
checkCollisions(state, direction, now) ==
  IF state.err THEN state
  ELSE IF direction # "none" THEN checkSideCollisions(state, direction, now)
  ELSE IF isOnGround(state) THEN tetrominoLanded(state, now)
  ELSE checkStackingOnBlocks(state, now)

\* Variant: every row of the result is read from column 0 (row[0] for row[j]).
\* Variant: a quarter turn the other way (each column read top to bottom,
\* the columns taken from last to first).
rotateShape_counterClockwise(t) ==
  LET m == Len(t[1])
  IN  [j \in 1..m |-> [k \in 1..Len(t) |-> t[k][m - j + 1]]]

rotateShape_firstColumn(t) ==
  LET n == Len(t)
  IN  [j \in 1..Len(t[1]) |-> [k \in 1..n |-> t[n - k + 1][1]]]

\* currentTetromino[0].map((_, j) => currentTetromino.map(row => row[j]).reverse())
rotateShape(t) ==
  LET n == Len(t)
  IN  [j \in 1..Len(t[1]) |-> [k \in 1..n |-> t[n - k + 1][j]]]

\* Variant: the turned piece is put one row higher, if there is a row above.
rotate_liftsPiece(state, now) ==
  LET rotatedTetromino == rotateShape(state.currentTetromino)
      turned(newState) ==
        IF newState.err THEN newState
        ELSE IfColliding(isSideColliding(newState, 0), Throw(newState), state,
                         checkCollisions(newState, "none", now))
  IN  turned(checkBounds([state EXCEPT !.currentTetromino = rotatedTetromino,
                                       !.row = IF state.row > 0 THEN state.row - 1
                                               ELSE state.row]))

rotate(state, now) ==
  LET rotatedTetromino == rotateShape(state.currentTetromino)
      turned(newState) ==
        IF newState.err THEN newState
        ELSE IfColliding(isSideColliding(newState, 0), Throw(newState), state,
                         checkCollisions(newState, "none", now))
  IN  turned(checkBounds([state EXCEPT !.currentTetromino = rotatedTetromino]))

tick(s, now) == checkBounds(checkCollisions([s EXCEPT !.row = s.row + 1], "none", now))

\* The state value standing for a function that returned undefined.
UndefinedState == Throw(Lift([grid |-> <<>>, level |-> 0, score |-> 0,
                              linesCleared |-> 0, gameEnd |-> FALSE, col |-> 0,
                              row |-> 0, currentTetromino |-> <<>>,
                              nextTetromino |-> <<>>, seed |-> 0]))

\* Variant: the down case leaves the row as it is.
move_downStays(state, direction, now) ==
  CASE direction \in {"left", "right"} ->
         checkBounds(checkCollisions(state, direction, now))
    [] direction = "down" ->
         checkBounds(checkCollisions(state, "none", now))
    [] direction = "up" -> checkBounds(rotate(state, now))
    [] OTHER -> UndefinedState               \* the switch has no default

move(state, direction, now) ==
  CASE direction \in {"left", "right"} ->
         checkBounds(checkCollisions(state, direction, now))
    [] direction = "down" ->
         checkBounds(checkCollisions([state EXCEPT !.row = state.row + 1], "none", now))
    [] direction = "up" -> checkBounds(rotate(state, now))
    [] OTHER -> UndefinedState               \* the switch has no default

\* event is "tick" for a TickEvent, the direction for an InputEvent.
processEvent(event, state, now) ==
  IF event = "tick" THEN tick(state, now) ELSE move(state, event, now)

\* state.grid.findIndex(row => row.every(block => block !== 0))
\* Variant: the last filled row is taken, not the first.
filledRowIndex_last(state) ==
  LET full == {i \in 0..(Len(state.grid) - 1) :
                 \A j \in 1..Len(state.grid[i + 1]) : state.grid[i + 1][j] # 0}
  IN  IF full = {} THEN -1 ELSE CHOOSE i \in full : \A k \in full : k <= i

filledRowIndex(state) ==
  LET full == {i \in 0..(Len(state.grid) - 1) :
                 \A j \in 1..Len(state.grid[i + 1]) : state.grid[i + 1][j] # 0}
  IN  IF full = {} THEN -1 ELSE CHOOSE i \in full : \A k \in full : i <= k

\* Variant: the filled row is emptied where it is, the rows above do not move.
updateScore_inPlace(state) ==
  IF state.err THEN state
  ELSE IF filledRowIndex(state) > -1
  THEN LET newGrid == [state.grid EXCEPT ![filledRowIndex(state) + 1] =
                                            [j \in 1..GRID_WIDTH |-> 0]]
           shouldIncreaseLevel == state.linesCleared + 1 = 10
       IN  [state EXCEPT
              !.grid = newGrid,
              !.level = IF shouldIncreaseLevel THEN state.level + 1 ELSE state.level,
              !.score = state.score + 10,
              !.linesCleared = IF shouldIncreaseLevel THEN 0 ELSE state.linesCleared + 1]
  ELSE state

\* Variant: the tenth line resets linesCleared and leaves level as it is.
updateScore_noLevel(state) ==
  IF state.err THEN state
  ELSE IF filledRowIndex(state) > -1
  THEN LET newGrid == <<[j \in 1..GRID_WIDTH |-> 0]>>
                      \o SubSeq(state.grid, 1, filledRowIndex(state))
                      \o SubSeq(state.grid, filledRowIndex(state) + 2, Len(state.grid))
           shouldIncreaseLevel == state.linesCleared + 1 = 10
       IN  [state EXCEPT
              !.grid = newGrid,
              !.score = state.score + 10,
              !.linesCleared = IF shouldIncreaseLevel THEN 0 ELSE state.linesCleared + 1]
  ELSE state

\* Variant: the filled row is removed and no empty row is put on top.
updateScore_noNewRow(state) ==
  IF state.err THEN state
  ELSE IF filledRowIndex(state) > -1
  THEN LET newGrid == SubSeq(state.grid, 1, filledRowIndex(state))
                      \o SubSeq(state.grid, filledRowIndex(state) + 2, Len(state.grid))
           shouldIncreaseLevel == state.linesCleared + 1 = 10
       IN  [state EXCEPT
              !.grid = newGrid,
              !.level = IF shouldIncreaseLevel THEN state.level + 1 ELSE state.level,
              !.score = state.score + 10,
              !.linesCleared = IF shouldIncreaseLevel THEN 0 ELSE state.linesCleared + 1]
  ELSE state

\* Variant: a call scores every filled row and still removes one.
updateScore_scoresAllRows(state) ==
  IF state.err THEN state
  ELSE IF filledRowIndex(state) > -1
  THEN LET newGrid == <<[j \in 1..GRID_WIDTH |-> 0]>>
                      \o SubSeq(state.grid, 1, filledRowIndex(state))
                      \o SubSeq(state.grid, filledRowIndex(state) + 2, Len(state.grid))
           shouldIncreaseLevel == state.linesCleared + 1 = 10
           filled == {i \in 1..Len(state.grid) :
                        \A j \in 1..Len(state.grid[i]) : state.grid[i][j] # 0}
       IN  [state EXCEPT
              !.grid = newGrid,
              !.level = IF shouldIncreaseLevel THEN state.level + 1 ELSE state.level,
              !.score = state.score + 10 * Cardinality(filled),
              !.linesCleared = IF shouldIncreaseLevel THEN 0 ELSE state.linesCleared + 1]
  ELSE state

\* Variant: the falling piece is shifted down with the rows above the filled row.
updateScore_shiftsPiece(state) ==
  IF state.err THEN state
  ELSE IF filledRowIndex(state) > -1
  THEN LET newGrid == <<[j \in 1..GRID_WIDTH |-> 0]>>
                      \o SubSeq(state.grid, 1, filledRowIndex(state))
                      \o SubSeq(state.grid, filledRowIndex(state) + 2, Len(state.grid))
           shouldIncreaseLevel == state.linesCleared + 1 = 10
       IN  [state EXCEPT
              !.grid = newGrid,
              !.row = state.row + 1,
              !.level = IF shouldIncreaseLevel THEN state.level + 1 ELSE state.level,
              !.score = state.score + 10,
              !.linesCleared = IF shouldIncreaseLevel THEN 0 ELSE state.linesCleared + 1]
  ELSE state

updateScore(state) ==
  IF state.err THEN state
  ELSE IF filledRowIndex(state) > -1
  THEN LET newGrid == <<[j \in 1..GRID_WIDTH |-> 0]>>
                      \o SubSeq(state.grid, 1, filledRowIndex(state))
                      \o SubSeq(state.grid, filledRowIndex(state) + 2, Len(state.grid))
           shouldIncreaseLevel == state.linesCleared + 1 = 10
       IN  [state EXCEPT
              !.grid = newGrid,
              !.level = IF shouldIncreaseLevel THEN state.level + 1 ELSE state.level,
              !.score = state.score + 10,
              !.linesCleared = IF shouldIncreaseLevel THEN 0 ELSE state.linesCleared + 1]
  ELSE state

(***************************************************************************)
(* The host and its environment.  The host folds the merged stream of tick *)
(* and key events into the state, one event at a time: processEvent, then  *)
(* updateScore.  The environment chooses the events.  A run starts with    *)
(* one of the Scenarios: the value Date.now() returned at game creation    *)
(* and a prefix of events (a played opening); after the prefix every event *)
(* is possible, for MaxFree events.                                        *)
(***************************************************************************)
MaxFree == 6

\* Times the clock may show (Date.now() in ms, as limbs): 1700000000000 and
\* 1700000000001.
Clock == {<<26624, 8138, 1583>>, <<26625, 8138, 1583>>}

Events == {"tick", "left", "right", "down", "up"}

RECURSIVE Repeat(_, _)
Repeat(e, n) == IF n = 0 THEN <<>> ELSE <<e>> \o Repeat(e, n - 1)

Scenarios ==
  <<
    \* fresh S (pieces SIJI...): a new game, nothing played
    [now |-> <<26624, 8138, 1583>>,   \* Date.now() = 1700000000000
     events |->
         <<>>],
    \* fresh I (pieces ISLT...): a new game, nothing played
    [now |-> <<26646, 8138, 1583>>,   \* Date.now() = 1700000000022
     events |->
         <<>>],
    \* drop I (pieces ISLT...): the first piece three ticks above its landing
    [now |-> <<26646, 8138, 1583>>,   \* Date.now() = 1700000000022
     events |->
         Repeat("tick", 16)],
    \* drop T (pieces TLOZ...): the first piece three ticks above its landing
    [now |-> <<26626, 8138, 1583>>,   \* Date.now() = 1700000000002
     events |->
         Repeat("tick", 15)],
    \* drop O (pieces OILT...): the first piece three ticks above its landing
    [now |-> <<26641, 8138, 1583>>,   \* Date.now() = 1700000000017
     events |->
         Repeat("tick", 15)],
    \* drop Z (pieces ZOIZ...): the first piece three ticks above its landing
    [now |-> <<26636, 8138, 1583>>,   \* Date.now() = 1700000000012
     events |->
         Repeat("tick", 15)],
    \* left wall I (pieces ISLT...): the I piece at the left wall
    [now |-> <<26646, 8138, 1583>>,   \* Date.now() = 1700000000022
     events |->
         Repeat("left", 3) \o Repeat("tick", 2)],
    \* left wall J (pieces JZSO...): the J piece at the left wall
    [now |-> <<26625, 8138, 1583>>,   \* Date.now() = 1700000000001
     events |->
         Repeat("tick", 2) \o Repeat("left", 3)],
    \* right wall L (pieces LZTZ...): the L piece at the right wall
    [now |-> <<26631, 8138, 1583>>,   \* Date.now() = 1700000000007
     events |->
         Repeat("tick", 1) \o Repeat("right", 4)],
    \* right wall I (pieces ISLT...): the upright I piece at the right wall
    [now |-> <<26646, 8138, 1583>>,   \* Date.now() = 1700000000022
     events |->
         Repeat("tick", 1) \o Repeat("up", 1) \o Repeat("right", 4)],
    \* floor turn II (pieces IIJT...): the second piece low beside the first, landed one
    [now |-> <<26691, 8138, 1583>>,   \* Date.now() = 1700000000067
     events |->
         Repeat("down", 34)],
    \* floor turn IS (pieces ISLT...): the second piece low beside the first, landed one
    [now |-> <<26646, 8138, 1583>>,   \* Date.now() = 1700000000022
     events |->
         Repeat("down", 35) \o Repeat("left", 1)],
    \* beside blocks (pieces OSIL...): the second piece beside the landed first one
    [now |-> <<26645, 8138, 1583>>,   \* Date.now() = 1700000000021
     events |->
         Repeat("down", 33) \o Repeat("right", 3)],
    \* line clear (pieces SIJI...): a played game, four events before its first line clear
    [now |-> <<26624, 8138, 1583>>,   \* Date.now() = 1700000000000
     events |->
         Repeat("right", 4) \o Repeat("down", 37) \o Repeat("left", 3)
         \o Repeat("down", 18) \o Repeat("right", 1) \o Repeat("down", 18)
         \o Repeat("left", 2) \o Repeat("down", 33) \o Repeat("up", 3)
         \o Repeat("left", 3) \o Repeat("down", 12)],
    \* level up (pieces TSTZ...): a played game, four events before its tenth line clear
    [now |-> <<26663, 8138, 1583>>,   \* Date.now() = 1700000000039
     events |->
         Repeat("left", 3) \o Repeat("down", 18) \o Repeat("up", 1)
         \o Repeat("left", 2) \o Repeat("down", 17) \o Repeat("up", 1)
         \o Repeat("left", 4) \o Repeat("down", 16) \o Repeat("left", 3)
         \o Repeat("down", 15) \o Repeat("right", 1) \o Repeat("down", 19)
         \o Repeat("right", 1) \o Repeat("down", 33) \o Repeat("right", 4)
         \o Repeat("down", 18) \o Repeat("left", 4) \o Repeat("down", 14)
         \o Repeat("up", 1) \o Repeat("right", 2) \o Repeat("down", 17)
         \o Repeat("right", 4) \o Repeat("down", 18) \o Repeat("up", 1)
         \o Repeat("left", 3) \o Repeat("down", 15) \o Repeat("up", 1)
         \o Repeat("left", 1) \o Repeat("down", 17) \o Repeat("up", 1)
         \o Repeat("right", 2) \o Repeat("down", 16) \o Repeat("up", 3)
         \o Repeat("down", 16) \o Repeat("up", 1) \o Repeat("down", 16)
         \o Repeat("up", 1) \o Repeat("left", 1) \o Repeat("down", 14)
         \o Repeat("up", 3) \o Repeat("right", 5) \o Repeat("down", 17)
         \o Repeat("left", 3) \o Repeat("down", 15) \o Repeat("up", 1)
         \o Repeat("left", 4) \o Repeat("down", 13) \o Repeat("left", 2)
         \o Repeat("down", 13) \o Repeat("up", 1) \o Repeat("right", 1)
         \o Repeat("down", 16) \o Repeat("up", 3) \o Repeat("right", 4)
         \o Repeat("down", 17) \o Repeat("up", 2) \o Repeat("right", 4)
         \o Repeat("down", 17) \o Repeat("right", 1) \o Repeat("down", 35)
         \o Repeat("right", 4) \o Repeat("down", 14)],
    \* game over S (pieces SIJI...): pieces dropped without a key pressed, three ticks before the game ends
    [now |-> <<26624, 8138, 1583>>,   \* Date.now() = 1700000000000
     events |->
         Repeat("tick", 103)],
    \* game over I (pieces ISLT...): pieces dropped without a key pressed, three ticks before the game ends
    [now |-> <<26646, 8138, 1583>>,   \* Date.now() = 1700000000022
     events |->
         Repeat("tick", 98)],
    \* past game over (pieces SOJT...): pieces dropped with the down key, one event before the game ends; the piece landed after that leaves the spawn area free
    [now |-> <<26653, 8138, 1583>>,   \* Date.now() = 1700000000029
     events |->
         Repeat("down", 89)],
    \* line at game over (pieces ZTJS...): a played game, one event before the landing that completes row 2 and ends the game
    [now |-> <<26712, 8138, 1583>>,   \* Date.now() = 1700000000088
     events |->
         Repeat("down", 97) \o Repeat("up", 1) \o Repeat("right", 2)
         \o Repeat("down", 5) \o Repeat("left", 3) \o Repeat("down", 2)
         \o Repeat("right", 3) \o Repeat("down", 1)],
    \* slid onto blocks (pieces OSIL...): the second piece moved left over the landed first one, which lands it
    [now |-> <<26645, 8138, 1583>>,   \* Date.now() = 1700000000021
     events |->
         Repeat("down", 33) \o Repeat("right", 3) \o Repeat("tick", 1)
         \o Repeat("left", 1)],
    \* two lines (pieces ZTJS...): a played game, one event before the landing that completes rows 16 and 18 at once
    [now |-> <<26712, 8138, 1583>>,   \* Date.now() = 1700000000088
     events |->
         Repeat("right", 4) \o Repeat("down", 36) \o Repeat("left", 3)
         \o Repeat("down", 18) \o Repeat("left", 1) \o Repeat("down", 17)
         \o Repeat("up", 1) \o Repeat("right", 1) \o Repeat("down", 16)
         \o Repeat("up", 2) \o Repeat("left", 1) \o Repeat("down", 15)
         \o Repeat("up", 2) \o Repeat("right", 4) \o Repeat("down", 16)
         \o Repeat("up", 1) \o Repeat("down", 15) \o Repeat("right", 4)
         \o Repeat("down", 15) \o Repeat("up", 3) \o Repeat("left", 3)
         \o Repeat("down", 15)],
    \* two lines at level up (pieces TSTZ...): the level up game played on, one event before the landing that completes rows 18 and 19 with nine lines cleared
    [now |-> <<26663, 8138, 1583>>,   \* Date.now() = 1700000000039
     events |->
         Repeat("left", 3) \o Repeat("down", 18) \o Repeat("up", 1)
         \o Repeat("left", 2) \o Repeat("down", 17) \o Repeat("up", 1)
         \o Repeat("left", 4) \o Repeat("down", 16) \o Repeat("left", 3)
         \o Repeat("down", 15) \o Repeat("right", 1) \o Repeat("down", 19)
         \o Repeat("right", 1) \o Repeat("down", 33) \o Repeat("right", 4)
         \o Repeat("down", 18) \o Repeat("left", 4) \o Repeat("down", 14)
         \o Repeat("up", 1) \o Repeat("right", 2) \o Repeat("down", 17)
         \o Repeat("right", 4) \o Repeat("down", 18) \o Repeat("up", 1)
         \o Repeat("left", 3) \o Repeat("down", 15) \o Repeat("up", 1)
         \o Repeat("left", 1) \o Repeat("down", 17) \o Repeat("up", 1)
         \o Repeat("right", 2) \o Repeat("down", 16) \o Repeat("up", 3)
         \o Repeat("down", 16) \o Repeat("up", 1) \o Repeat("down", 16)
         \o Repeat("up", 1) \o Repeat("left", 1) \o Repeat("down", 14)
         \o Repeat("up", 3) \o Repeat("right", 5) \o Repeat("down", 17)
         \o Repeat("left", 3) \o Repeat("down", 15) \o Repeat("up", 1)
         \o Repeat("left", 4) \o Repeat("down", 13) \o Repeat("left", 2)
         \o Repeat("down", 13) \o Repeat("up", 1) \o Repeat("right", 1)
         \o Repeat("down", 16) \o Repeat("up", 3) \o Repeat("right", 4)
         \o Repeat("down", 17) \o Repeat("up", 2) \o Repeat("right", 4)
         \o Repeat("down", 17) \o Repeat("right", 1) \o Repeat("down", 35)
         \o Repeat("right", 4) \o Repeat("down", 14) \o Repeat("up", 3)
         \o Repeat("left", 1) \o Repeat("down", 18) \o Repeat("up", 1)
         \o Repeat("left", 3) \o Repeat("down", 16) \o Repeat("up", 1)
         \o Repeat("right", 2) \o Repeat("down", 15) \o Repeat("right", 4)
         \o Repeat("down", 17)],
    \* four lines (pieces JOOL...): a played game, one event before the landing that completes rows 16 to 19 at once
    [now |-> <<26629, 8138, 1583>>,   \* Date.now() = 1700000000005
     events |->
         Repeat("left", 3) \o Repeat("down", 18) \o Repeat("left", 1)
         \o Repeat("down", 18) \o Repeat("right", 1) \o Repeat("down", 18)
         \o Repeat("up", 1) \o Repeat("right", 3) \o Repeat("down", 17)
         \o Repeat("left", 2) \o Repeat("down", 17) \o Repeat("left", 4)
         \o Repeat("down", 16) \o Repeat("right", 1) \o Repeat("down", 16)
         \o Repeat("up", 3) \o Repeat("right", 4) \o Repeat("down", 31)
         \o Repeat("up", 2) \o Repeat("left", 2) \o Repeat("down", 14)
         \o Repeat("up", 1) \o Repeat("right", 2) \o Repeat("down", 14)
         \o Repeat("up", 1) \o Repeat("right", 4) \o Repeat("down", 15)],
    \* spawn on a block (pieces SZIS...): a tower at the left, one event before the landing that leaves a block in the spawn area with nothing below it
    [now |-> <<26659, 8138, 1583>>,   \* Date.now() = 1700000000035
     events |->
         Repeat("up", 1) \o Repeat("left", 3) \o Repeat("down", 17)
         \o Repeat("up", 1) \o Repeat("left", 3) \o Repeat("down", 14)
         \o Repeat("up", 1) \o Repeat("left", 3) \o Repeat("down", 10)
         \o Repeat("up", 1) \o Repeat("left", 3) \o Repeat("down", 7)
         \o Repeat("up", 3) \o Repeat("left", 2) \o Repeat("down", 4)
         \o Repeat("up", 1) \o Repeat("left", 2)],
    \* at rest after a row is removed (pieces TOII...): a landing fills two rows, the next piece is landed at the top by a left input, and removing the second row leaves the piece spawned then with a block right below it
    [now |-> <<26630, 8138, 1583>>,   \* Date.now() = 1700000000006
     events |->
         Repeat("right", 4) \o Repeat("down", 18) \o Repeat("left", 4)
         \o Repeat("down", 18) \o Repeat("up", 1) \o Repeat("left", 3)
         \o Repeat("down", 16) \o Repeat("up", 1) \o Repeat("left", 3)
         \o Repeat("down", 12) \o Repeat("up", 3) \o Repeat("left", 2)
         \o Repeat("down", 27) \o Repeat("up", 1) \o Repeat("right", 2)
         \o Repeat("down", 17) \o Repeat("left", 3) \o Repeat("down", 7)
         \o Repeat("up", 3) \o Repeat("left", 2) \o Repeat("down", 4)
         \o Repeat("up", 3) \o Repeat("right", 5) \o Repeat("down", 16)
         \o Repeat("up", 3) \o Repeat("left", 2) \o Repeat("down", 1)
         \o Repeat("up", 1) \o Repeat("left", 2) \o Repeat("down", 16)
         \o Repeat("left", 2)]
  >>

VARIABLES
  state,      \* the State held by the host's fold
  pc,         \* "event": waiting for an event; "score": updateScore is due
  landing,    \* the tetrominoLanded call of the last event: <<>> or <<its argument>>
  failed,     \* a TypeError was thrown: the fold is dead
  scenario,   \* the scenario of this run (an index of Scenarios)
  pos,        \* events of the scenario's prefix delivered so far
  free        \* events delivered after the prefix

vars == <<state, pc, landing, failed, scenario, pos, free>>

Init ==
  \E sc \in DOMAIN Scenarios :
    /\ \E new \in {createNewState(Null, Scenarios[sc].now)} :
          state = Core(new) /\ failed = new.err
    /\ pc = "event"
    /\ landing = <<>>
    /\ scenario = sc
    /\ pos = 0
    /\ free = 0

InPrefix == pos < Len(Scenarios[scenario].events)

\* The environment delivers event e: the next one of the prefix, or any event
\* within the bound.
Delivers(e, inPrefix) ==
  IF inPrefix THEN e = Scenarios[scenario].events[pos + 1] ELSE free < MaxFree

\* The host's fold applies processEvent to the delivered event.
Process(e) ==
  /\ pc = "event"
  /\ ~failed
  /\ \E now \in Clock, inPrefix \in {InPrefix} :
       /\ Delivers(e, inPrefix)
       /\ \E out \in {processEvent(e, Lift(state), now)} :
             /\ failed' = out.err
             /\ state' = IF out.err THEN state ELSE Core(out)
             /\ landing' = IF out.err THEN <<>> ELSE out.landed
       /\ pos' = IF inPrefix THEN pos + 1 ELSE pos
       /\ free' = IF inPrefix THEN free ELSE free + 1
  /\ pc' = "score"
  /\ UNCHANGED scenario

Tick == Process("tick")
Left == Process("left")
Right == Process("right")
Down == Process("down")
Up == Process("up")

\* ... and then updateScore to the result.
UpdateScore ==
  /\ pc = "score"
  /\ ~failed
  /\ state' = Core(updateScore(Lift(state)))
  /\ pc' = "event"
  /\ UNCHANGED <<landing, failed, scenario, pos, free>>

Next == Tick \/ Left \/ Right \/ Down \/ Up \/ UpdateScore

Spec == Init /\ [][Next]_vars

(***************************************************************************)
(* Properties                                                              *)
(***************************************************************************)
\* The grid cells <<r, c>> under the nonzero cells of shape t anchored at (row, col).
CellsOf(t, row, col) ==
  {<<row + i, col + j>> : <<i, j>> \in
     {x \in (0..(Len(t) - 1)) \X (0..(Len(t) - 1)) : t[x[1] + 1][x[2] + 1] # 0}}

PieceCells == CellsOf(state.currentTetromino, state.row, state.col)

InGrid(cell) ==
  cell[1] >= 0 /\ cell[1] < GRID_HEIGHT /\ cell[2] >= 0 /\ cell[2] < GRID_WIDTH

\* C1 (bounds invariant): in every reachable state every nonzero cell of
\* currentTetromino, projected at (row, col), lies inside the grid; the bounding
\* box reaches past an edge only where the shape is empty.
C1_BoundsInvariant == \A cell \in PieceCells : InGrid(cell)

\* C1's case: the box of the piece hangs over the left or right edge after a move.
C1_Witness == pc = "score" /\ (state.col < 0 \/ state.col > GRID_WIDTH - Len(state.currentTetromino))

\* C2 (no overlap on land): whenever tetrominoLanded is invoked in a game that
\* has not ended, every grid cell under a nonzero cell of the landing piece is 0
\* before the commit.
C2_NoOverlapOnLand ==
  (landing # <<>> /\ ~landing[1].gameEnd) =>
     \A cell \in CellsOf(landing[1].shape, landing[1].row, landing[1].col) :
        InGrid(cell) /\ landing[1].grid[cell[1] + 1][cell[2] + 1] = 0

\* C3 as stated (gameEnd is terminal for processEvent): once gameEnd is true,
\* processEvent returns a state whose grid, row, col, currentTetromino,
\* nextTetromino, seed, score and level equal the input's.
C3_GameEndFreezes ==
  [][(pc = "event" /\ state.gameEnd) =>
       /\ state'.grid = state.grid
       /\ state'.row = state.row
       /\ state'.col = state.col
       /\ state'.currentTetromino = state.currentTetromino
       /\ state'.nextTetromino = state.nextTetromino
       /\ state'.seed = state.seed
       /\ state'.score = state.score
       /\ state'.level = state.level]_vars

\* C3 (amended): processEvent does not test gameEnd, so the piece of an ended
\* game still moves and lands (grid, row, col, currentTetromino, nextTetromino
\* and seed change); what processEvent keeps of an ended state is gameEnd
\* itself, score and level.
C3_GameEndKept ==
  [][(pc = "event" /\ state.gameEnd) =>
       /\ state'.gameEnd
       /\ state'.score = state.score
       /\ state'.level = state.level]_vars

\* C3's case: processEvent has landed a piece in a game that had already ended.
C3_Witness == pc = "score" /\ landing # <<>> /\ landing[1].gameEnd /\ state.gameEnd

\* C4 (determinism): what processEvent returns, and what createNewState makes
\* of a previous state, does not depend on the wall clock: with the state and
\* the event fixed, every value of Date.now() gives the same result, so two
\* runs from the same initial state fed the same events go through the same
\* states.  (updateScore reads no clock at all.)
C4_Deterministic ==
  (pc = "event" /\ ~failed) =>
     /\ \A e \in Events :
           Cardinality({processEvent(e, Lift(state), now) : now \in Clock}) = 1
     /\ Cardinality({createNewState(Lift(state), now) : now \in Clock}) = 1

\* C4's case: a state in which a tick lands the piece, so createNewState is
\* called with a previous state and reads the clock.
C4_Witness ==
  /\ pc = "event" /\ ~failed /\ (~InPrefix => free < MaxFree)
  /\ \E now \in Clock : processEvent("tick", Lift(state), now).landed # <<>>

\* The 0-based indices of the grid rows with no zero cell.
FullRows(grid) ==
  {r \in 0..(Len(grid) - 1) : \A j \in 1..Len(grid[r + 1]) : grid[r + 1][j] # 0}

\* C5 (line clear): when exactly one row r of the grid is full, updateScore
\* returns a grid of the same dimensions with row 0 all zero, rows 1..r the old
\* rows 0..r-1 and the rows below r unchanged; score grows by 10; linesCleared
\* grows by 1, except from 9, where level grows by 1 and linesCleared becomes 0.
C5_LineClear ==
  [][(pc = "score" /\ ~failed /\ Cardinality(FullRows(state.grid)) = 1) =>
       LET r == CHOOSE x \in FullRows(state.grid) : TRUE
       IN  /\ Len(state'.grid) = Len(state.grid)
           /\ \A k \in 1..Len(state.grid) : Len(state'.grid[k]) = Len(state.grid[k])
           /\ \A j \in 1..GRID_WIDTH : state'.grid[1][j] = 0
           /\ \A k \in 1..r : state'.grid[k + 1] = state.grid[k]
           /\ \A k \in (r + 1)..(Len(state.grid) - 1) : state'.grid[k + 1] = state.grid[k + 1]
           /\ state'.score = state.score + 10
           /\ IF state.linesCleared = 9
              THEN state'.level = state.level + 1 /\ state'.linesCleared = 0
              ELSE state'.linesCleared = state.linesCleared + 1]_vars

\* C5's case: the first line has been cleared from row GRID_HEIGHT - 2, and the
\* unfilled bottom row below it is still there.
C5_Witness ==
  /\ pc = "event" /\ state.score = 10 /\ state.linesCleared = 1
  /\ \E j \in 1..GRID_WIDTH : state.grid[GRID_HEIGHT][j] # 0
  /\ \E j \in 1..GRID_WIDTH : state.grid[GRID_HEIGHT][j] = 0

\* C6 as stated: score, level and linesCleared never decrease along a run.
C6_AllMonotone ==
  [][/\ state'.score >= state.score
     /\ state'.level >= state.level
     /\ state'.linesCleared >= state.linesCleared]_vars

\* C6 (amended): score and level never decrease along a run; linesCleared never
\* decreases either, except that it returns to 0 in the step that increases level.
C6_Monotone ==
  [][/\ state'.score >= state.score
     /\ state'.level >= state.level
     /\ \/ state'.linesCleared >= state.linesCleared
        \/ state'.level = state.level + 1 /\ state'.linesCleared = 0]_vars

\* C6's case: the tenth line has been cleared and the level has gone up.
C6_Witness == state.level = 1 /\ state.linesCleared = 0 /\ state.score = 100

\* C7 (grid shape): in every reachable state the grid has GRID_HEIGHT rows of
\* GRID_WIDTH cells, each cell in 0..7.
C7_GridShape ==
  /\ Len(state.grid) = GRID_HEIGHT
  /\ \A r \in 1..Len(state.grid) :
        /\ Len(state.grid[r]) = GRID_WIDTH
        /\ \A j \in 1..Len(state.grid[r]) : state.grid[r][j] \in 0..7

\* C7's case: a piece has just landed and updateScore has removed a line.
C7_Witness ==
  /\ pc = "event" /\ landing # <<>> /\ state.score > 0
  /\ landing[1].grid # clearGame

\* Some occupied cell of the piece has a wall or an occupied grid cell one
\* column away in direction deltaCol.
Blocked(deltaCol) ==
  \E cell \in PieceCells :
     \/ cell[2] + deltaCol < 0
     \/ cell[2] + deltaCol >= GRID_WIDTH
     \/ InGrid(cell) /\ state.grid[cell[1] + 1][cell[2] + deltaCol + 1] # 0

\* A grid cell, not a wall, stops the piece in direction deltaCol.
BlockedByCell(deltaCol) ==
  \E cell \in PieceCells :
     /\ InGrid(<<cell[1], cell[2] + deltaCol>>)
     /\ state.grid[cell[1] + 1][cell[2] + deltaCol + 1] # 0

\* C8 (no-op moves): a left or right input that is blocked by a wall or by an
\* occupied grid cell one column away returns a state equal to the input in
\* every field.
C8_BlockedMoveIsNoOp ==
  (pc = "event" /\ ~failed) =>
     /\ Blocked(-1) => \A now \in Clock : processEvent("left", Lift(state), now) = Lift(state)
     /\ Blocked(1) => \A now \in Clock : processEvent("right", Lift(state), now) = Lift(state)

\* C8's case: a state of a running game in which a grid cell blocks the piece
\* on its left and the next event may be a left input.
C8_Witness ==
  /\ pc = "event" /\ ~failed /\ ~state.gameEnd
  /\ ~InPrefix /\ free < MaxFree
  /\ BlockedByCell(-1)

RECURSIVE rotateTimes(_, _)
rotateTimes(t, n) == IF n = 0 THEN t ELSE rotateTimes(rotateShape(t), n - 1)

\* C9 (rotation round trip): four rotations of the piece in play, taken in any
\* of its rotations, and of the piece to come, give the shape back.
C9_RotationRoundTrip ==
  \A t \in {state.currentTetromino, state.nextTetromino} :
     \A k \in 0..3 : rotateTimes(rotateTimes(t, k), 4) = rotateTimes(t, k)

\* C9's case: the piece in play has been turned by an up input and is in none
\* of the catalog orientations.
C9_Witness ==
  /\ pc = "score"
  /\ \A k \in 1..Len(Tetrominos) : state.currentTetromino # Tetrominos[k]

(***************************************************************************)
(* A fresh game fed tick events only.  The game starts with any of the     *)
(* seven pieces and takes ticks until MaxDrops pieces have landed.         *)
(***************************************************************************)
MaxDrops == 1

\* Values of Date.now() for which createNewState(null) starts with the pieces
\* I, J, L, O, S, T, Z: 1700000000022, ...01, ...07, ...17, ...00, ...02, ...12.
DropClock ==
  {<<26646, 8138, 1583>>, <<26625, 8138, 1583>>, <<26631, 8138, 1583>>,
   <<26641, 8138, 1583>>, <<26624, 8138, 1583>>, <<26626, 8138, 1583>>,
   <<26636, 8138, 1583>>}

InitDrop ==
  \E start \in DropClock :
     /\ \E new \in {createNewState(Null, start)} :
           state = Core(new) /\ failed = new.err
     /\ pc = "event"
     /\ landing = <<>>
     /\ scenario = 1
     /\ pos = 0
     /\ free = 0

\* One tick; free counts the pieces landed.
DropTick ==
  /\ pc = "event" /\ ~failed /\ free < MaxDrops
  /\ \E now \in Clock :
        \E out \in {processEvent("tick", Lift(state), now)} :
            /\ failed' = out.err
            /\ state' = IF out.err THEN state ELSE Core(out)
            /\ landing' = IF out.err THEN <<>> ELSE out.landed
            /\ free' = IF out.err \/ out.landed = <<>> THEN free ELSE free + 1
  /\ pc' = "score"
  /\ UNCHANGED <<scenario, pos>>

NextDrop == DropTick \/ UpdateScore

SpecDrop == InitDrop /\ [][NextDrop]_vars

\* Row of the grid under the lowest occupied row of the piece.
LowestRow == state.row + findLastNonEmptyRowIndex(state)

\* The grid that holds the piece of state, one row down, and nothing else.
DroppedGrid ==
  [r \in 1..GRID_HEIGHT |-> [c \in 1..GRID_WIDTH |->
     IF <<r - 2, c - 1>> \in PieceCells
     THEN state.currentTetromino[r - 1 - state.row][c - state.col]
     ELSE 0]]

\* The tick descends: one row down, same column, nothing landed.
Descends ==
  /\ state'.row = state.row + 1
  /\ state'.col = state.col
  /\ state'.currentTetromino = state.currentTetromino
  /\ state'.grid = state.grid
  /\ landing' = <<>>

\* The tick lands the piece on the floor of the empty grid.
LandsOnFloor ==
  /\ landing' # <<>>
  /\ state'.grid = DroppedGrid
  /\ Cardinality(PieceCells) = 4
  /\ \E c \in 1..GRID_WIDTH : state'.grid[GRID_HEIGHT][c] # 0
  /\ state'.currentTetromino = state.nextTetromino

\* C10 as stated (end-to-end drop): on the empty grid, fed ticks only, the piece
\* descends one row per tick with col unchanged until isOnGround is true, and
\* one more tick then lands it: its four cells in the grid, the lowest in row
\* GRID_HEIGHT - 1, every other cell 0, currentTetromino the former nextTetromino.
C10_LandsWhenOnGround ==
  [][(pc = "event" /\ state.grid = clearGame) =>
       IF isOnGround(state) THEN LandsOnFloor ELSE Descends]_vars

\* C10 (amended): on the empty grid, fed ticks only, the piece descends one row
\* per tick with col unchanged while its lowest occupied row is above row
\* GRID_HEIGHT - 2; the tick taken with the lowest occupied row at
\* GRID_HEIGHT - 2 lands it in the same call, one row further down (no state is
\* returned in which isOnGround is true): its four cells in the grid, the lowest
\* in row GRID_HEIGHT - 1, every other cell 0, currentTetromino the former
\* nextTetromino.
C10_LandsOnReachingGround ==
  [][(pc = "event" /\ state.grid = clearGame) =>
       IF LowestRow = GRID_HEIGHT - 2 THEN LandsOnFloor
       ELSE LowestRow < GRID_HEIGHT - 2 /\ Descends]_vars

\* C10's case: the first piece has landed on the floor of the empty grid.
C10_Witness ==
  /\ pc = "score" /\ landing # <<>> /\ landing[1].grid = clearGame
  /\ \E c \in 1..GRID_WIDTH : state.grid[GRID_HEIGHT][c] # 0

(***************************************************************************)
(* The piece sequencer (specification Spec)                                *)
(***************************************************************************)
\* C11 as stated (sequencer step): at each landing, with stored seed s, the new
\* currentTetromino is the old nextTetromino, the new nextTetromino is the
\* catalog piece selected from hash(s), and the new stored seed is hash(s).
C11_NextFromHashedSeed ==
  [][(pc = "event" /\ landing' # <<>>) =>
       /\ state'.currentTetromino = state.nextTetromino
       /\ state'.nextTetromino = randomTetromino(hash(state.seed))
       /\ state'.seed = hash(state.seed)]_vars

\* C11 (amended): at each landing, with stored seed s, the new currentTetromino
\* is the old nextTetromino, the new nextTetromino is the catalog piece selected
\* from s itself (index floor(scale(s) * 7): the stored seed is the hash value
\* not yet used for a piece), and the new stored seed is hash(s).
C11_NextFromStoredSeed ==
  [][(pc = "event" /\ landing' # <<>>) =>
       /\ state'.currentTetromino = state.nextTetromino
       /\ state'.nextTetromino = randomTetromino(state.seed)
       /\ state'.seed = hash(state.seed)]_vars

\* C11's case: a piece has landed with a stored seed s for which s and hash(s)
\* select different pieces (after the landing the stored seed is hash(s)).
C11_Witness ==
  /\ pc = "score" /\ landing # <<>>
  /\ state.nextTetromino # randomTetromino(state.seed)

\* The number of generator values the properties below look ahead.
SequenceLength == 64

RECURSIVE hashChain(_, _)
\* h, hash(h), hash(hash(h)), ...: n values of the generator, starting with h.
\* The first half is computed, then the second half from the value after it.
hashChain(h, n) ==
  IF n = 0 THEN <<>>
  ELSE IF n = 1 THEN <<h>>
  ELSE LET after(first) ==
             first \o hashChain(hash(first[Len(first)]), n - (n \div 2))
       IN  after(hashChain(h, n \div 2))

\* For each scenario, with s0 the value Date.now() returned at game creation:
\* hash(s0), hash^2(s0), ..., hash^SequenceLength(s0).
Generator ==
  [sc \in 1..Len(Scenarios) |->
     hashChain(hashLimbs(Scenarios[sc].now), SequenceLength)]

\* The indices k, counted from 1, for which seed is hash^(k+2)(s0).
PieceIndices(seed) ==
  {k \in 1..(SequenceLength - 3) : Generator[scenario][k + 2] = seed}

\* C12 (sequence from the seed): with s0 the initial seed (Date.now() at game
\* creation), the k-th piece to become currentTetromino is the catalog entry
\* selected from hash^k(s0).  The game starts with piece 1 in play, piece 2
\* next and hash^3(s0) stored; while piece k is in play the stored seed is
\* hash^(k+2)(s0), a value that occurs once in the sequence; a landing puts
\* piece k+1 in play, piece k+2 next and stores hash^(k+3)(s0); any other
\* event and updateScore leave the stored seed and nextTetromino as they are.
C12_SequenceFromSeed ==
  /\ state.currentTetromino = randomTetromino(Generator[scenario][1])
  /\ state.nextTetromino = randomTetromino(Generator[scenario][2])
  /\ state.seed = Generator[scenario][3]
  /\ [][/\ Cardinality(PieceIndices(state.seed)) = 1
        /\ \A k \in PieceIndices(state.seed) :
              IF pc = "event" /\ landing' # <<>>
              THEN /\ state'.currentTetromino = randomTetromino(Generator[scenario][k + 1])
                   /\ state'.nextTetromino = randomTetromino(Generator[scenario][k + 2])
                   /\ state'.seed = Generator[scenario][k + 3]
              ELSE /\ state'.seed = state.seed
                   /\ state'.nextTetromino = state.nextTetromino]_vars

\* C12's case: the fifth piece is in play in a game in which keys were pressed
\* between the landings.
C12_Witness ==
  /\ 5 \in PieceIndices(state.seed)
  /\ \E i \in 1..pos : Scenarios[scenario].events[i] \in {"left", "right", "up"}


(***************************************************************************)
(* Piece selection on its own.  A game holds a hash value h as its stored  *)
(* seed, h drawn from the values next to the points where the selected     *)
(* index changes and from both ends of the range of hash; createNewState   *)
(* then selects the next piece from it, MaxSelect times.                   *)
(***************************************************************************)
MaxSelect == 3

\* The values 0, 1, 2, the values from one below to two above each k(m-1)/7
\* rounded down, and m - 1, the largest remainder modulo m.
HashValues ==
  {k * (RNG_m_minus_1 \div Len(Tetrominos)) + d : k \in 0..(Len(Tetrominos) - 1), d \in 0..2}
  \cup {k * (RNG_m_minus_1 \div Len(Tetrominos)) - d : k \in 1..Len(Tetrominos), d \in 0..1}
  \cup {RNG_m_minus_1}

InitSelect ==
  \E h \in HashValues, start \in DropClock :
     /\ \E new \in {createNewState(Null, start)} :
           state = [Core(new) EXCEPT !.seed = h] /\ failed = new.err
     /\ pc = "event"
     /\ landing = <<>>
     /\ scenario = 1
     /\ pos = 0
     /\ free = 0

\* createNewState(previousState): the next piece comes into play and a new
\* next piece is selected from the stored seed; free counts the selections.
Select ==
  /\ pc = "event" /\ ~failed /\ free < MaxSelect
  /\ \E now \in Clock :
        \E out \in {createNewState(Lift(state), now)} :
            /\ failed' = out.err
            /\ state' = IF out.err THEN state ELSE Core(out)
  /\ free' = free + 1
  /\ UNCHANGED <<pc, landing, scenario, pos>>

NextSelect == Select

SpecSelect == InitSelect /\ [][NextSelect]_vars

IsTetromino(t) ==
  /\ Len(t) \in 2..4
  /\ \A i \in 1..Len(t) : Len(t[i]) = Len(t) /\ \A j \in 1..Len(t) : t[i][j] \in 0..7

\* A well-formed State: every field present with a value of its type.
IsState(s) ==
  /\ DOMAIN s = {"grid", "level", "score", "linesCleared", "gameEnd", "col", "row",
                 "currentTetromino", "nextTetromino", "seed"}
  /\ Len(s.grid) = GRID_HEIGHT
  /\ \A r \in 1..Len(s.grid) :
        Len(s.grid[r]) = GRID_WIDTH /\ \A j \in 1..GRID_WIDTH : s.grid[r][j] \in 0..7
  /\ s.level \in Nat /\ s.score \in Nat /\ s.linesCleared \in Nat
  /\ s.gameEnd \in BOOLEAN
  /\ s.col \in Int /\ s.row \in Int
  /\ IsTetromino(s.currentTetromino) /\ IsTetromino(s.nextTetromino)
  /\ s.seed \in 0..RNG_m_minus_1

\* C14 (totality): in every reachable state, after every tick, left, right,
\* down and up event and after every updateScore, nothing has thrown and the
\* state is well formed: no collision check read a grid row outside
\* 0..GRID_HEIGHT-1 (such a read throws), and the landing of the last event, if
\* there was one, wrote only cells with the row in 0..GRID_HEIGHT-1 and the
\* column in 0..GRID_WIDTH-1 (columns outside are read, never written).
C14_Total ==
  /\ ~failed
  /\ IsState(state)
  /\ landing # <<>> =>
        \A cell \in CellsOf(landing[1].shape, landing[1].row, landing[1].col) :
           InGrid(cell)

\* C14's case: a piece has just landed in the bottom row against the right
\* wall, where the collision checks read column GRID_WIDTH.
C14_Witness ==
  /\ pc = "score" /\ landing # <<>>
  /\ <<GRID_HEIGHT - 1, GRID_WIDTH - 1>>
        \in CellsOf(landing[1].shape, landing[1].row, landing[1].col)


\* C16 (gameEnd is permanent): the state createNewState(null) makes has
\* gameEnd = false, and once a state has gameEnd = true every state that
\* processEvent and updateScore produce from it, further landings included,
\* has gameEnd = true.
C16_GameEndPermanent ==
  /\ ~state.gameEnd
  /\ [][state.gameEnd => state'.gameEnd]_vars

\* C16's case: updateScore has run after a piece landed in a game that had
\* ended before, and gameEnd is still true.
C16_Witness ==
  /\ pc = "event" /\ state.gameEnd
  /\ landing # <<>> /\ landing[1].gameEnd

\* Some occupied cell of the piece of s has an occupied grid cell one row below.
BlockBelow(s) ==
  \E cell \in CellsOf(s.currentTetromino, s.row, s.col) :
     /\ InGrid(<<cell[1] + 1, cell[2]>>)
     /\ s.grid[cell[1] + 2][cell[2] + 1] # 0

\* C17 (entering the terminal state): gameEnd changes from false to true only
\* in a processEvent call that lands a piece; in a landing of a game that has
\* not ended it becomes true exactly when the freshly spawned piece, at its
\* spawn anchor in the grid that holds the landed piece, has an occupied cell
\* with an occupied grid cell one row below; an event that lands nothing and
\* updateScore leave gameEnd as it is.
C17_GameEndOnlyOnLanding ==
  [][IF pc = "event" /\ ~state.gameEnd /\ landing' # <<>>
     THEN /\ state'.row = findFirstNonEmptyRowIndex(state'.currentTetromino)
          /\ state'.col = (GRID_WIDTH - Len(state'.currentTetromino)) \div 2
          /\ state'.gameEnd <=> BlockBelow(state')
     ELSE state'.gameEnd = state.gameEnd]_vars

\* C17's case: the landing of the last event has ended the game.
C17_Witness ==
  /\ pc = "score" /\ state.gameEnd
  /\ landing # <<>> /\ ~landing[1].gameEnd

\* C18 (score freeze): once gameEnd is true, score, level and linesCleared do
\* not change any more, neither in a processEvent call nor in an updateScore
\* call, the updateScore call that follows the landing that ended the game
\* included.
C18_ScoreFrozen ==
  [][state.gameEnd =>
       /\ state'.score = state.score
       /\ state'.level = state.level
       /\ state'.linesCleared = state.linesCleared]_vars

\* One column away in direction deltaCol, some occupied cell of the piece has
\* an occupied grid cell one row below.
StackedBeside(deltaCol) ==
  \E cell \in PieceCells :
     /\ InGrid(<<cell[1] + 1, cell[2] + deltaCol>>)
     /\ state.grid[cell[1] + 2][cell[2] + deltaCol + 1] # 0

\* The step leaves the fields a landing changes as they are.
NothingLanded ==
  /\ landing' = <<>>
  /\ state'.grid = state.grid
  /\ state'.currentTetromino = state.currentTetromino
  /\ state'.nextTetromino = state.nextTetromino
  /\ state'.seed = state.seed

\* The step commits the piece one column away in direction deltaCol.
LandedBeside(deltaCol) ==
  /\ landing' # <<>>
  /\ landing'[1].row = state.row
  /\ landing'[1].col = state.col + deltaCol
  /\ landing'[1].shape = state.currentTetromino
  /\ state'.grid # state.grid
  /\ state'.currentTetromino = state.nextTetromino
  /\ state'.seed = hash(state.seed)

\* C19 as stated (lateral moves do not land): processEvent with a left or right
\* input never commits the falling piece: grid, currentTetromino, nextTetromino
\* and seed are unchanged.
C19_LateralNeverLands ==
  [][(Left \/ Right) => NothingLanded]_vars

\* C19 (amended): processEvent with a left or right input commits the falling
\* piece exactly when the move is not blocked and, one column further in that
\* direction, some occupied cell of the piece has an occupied grid cell directly
\* below it: the piece is then landed at the shifted column in the same call.
\* In every other case grid, currentTetromino, nextTetromino and seed are
\* unchanged; the floor alone never makes a lateral move land.
C19_LateralLandsOnStack ==
  [][/\ Left => IF ~Blocked(-1) /\ StackedBeside(-1)
                THEN LandedBeside(-1) ELSE NothingLanded
     /\ Right => IF ~Blocked(1) /\ StackedBeside(1)
                 THEN LandedBeside(1) ELSE NothingLanded]_vars

\* C19's case: the last event of the played opening was a left or right input
\* and it has landed the piece.
C19_Witness ==
  /\ pc = "score" /\ landing # <<>>
  /\ free = 0 /\ pos > 0
  /\ Scenarios[scenario].events[pos] \in {"left", "right"}

\* One row further down the piece is on the ground: its lowest occupied cell is
\* in row GRID_HEIGHT - 1.
GroundBelow ==
  \E cell \in PieceCells : cell[1] + 1 = GRID_HEIGHT - 1

\* One row further down some occupied cell of the piece has an occupied grid
\* cell directly below it.
BlockBelowNextRow ==
  \E cell \in PieceCells :
     /\ InGrid(<<cell[1] + 2, cell[2]>>)
     /\ state.grid[cell[1] + 3][cell[2] + 1] # 0

\* C20 (tick semantics): in a game that has not ended a tick advances row by
\* one; the piece is landed, committed at the advanced row, if and only if at
\* the advanced position it is on the ground or some occupied cell has an
\* occupied grid cell directly below it; otherwise the result is the input
\* state with row + 1 and every other field unchanged.
C20_TickSemantics ==
  [][(Tick /\ ~state.gameEnd) =>
       IF GroundBelow \/ BlockBelowNextRow
       THEN /\ landing' # <<>>
            /\ landing'[1].row = state.row + 1
            /\ landing'[1].col = state.col
            /\ landing'[1].shape = state.currentTetromino
            /\ landing'[1].grid = state.grid
            /\ state'.currentTetromino = state.nextTetromino
       ELSE /\ landing' = <<>>
            /\ state' = [state EXCEPT !.row = state.row + 1]]_vars

\* C20's case: the last event of the played opening was a tick, and it has
\* landed the piece on blocks, above the floor, in a game that had not ended.
C20_Witness ==
  /\ pc = "score" /\ landing # <<>> /\ ~landing[1].gameEnd
  /\ free = 0 /\ pos > 0
  /\ Scenarios[scenario].events[pos] = "tick"
  /\ \A cell \in CellsOf(landing[1].shape, landing[1].row, landing[1].col) :
        cell[1] < GRID_HEIGHT - 1

(***************************************************************************)
(* Moves and rotation (specification Spec)                                 *)
(***************************************************************************)
\* C21 (down is a tick): for every state, processEvent with a down input and
\* processEvent with a tick return the same state, equal in every field.
C21_DownIsTick ==
  (pc = "event" /\ ~failed) =>
     \A now \in Clock :
        processEvent("down", Lift(state), now) = processEvent("tick", Lift(state), now)

\* C21's case: the last event of the played opening was a down input and it
\* has landed the piece.
C21_Witness ==
  /\ pc = "score" /\ landing # <<>>
  /\ free = 0 /\ pos > 0
  /\ Scenarios[scenario].events[pos] = "down"

\* Some occupied cell of shape t anchored at (row, col) lies on an occupied
\* cell of grid.
Overlaps(t, row, col, grid) ==
  \E cell \in CellsOf(t, row, col) :
     InGrid(cell) /\ grid[cell[1] + 1][cell[2] + 1] # 0

\* The piece of s lies on an occupied grid cell.
OverlapsGrid(s) == Overlaps(s.currentTetromino, s.row, s.col, s.grid)

\* The state rotate tests: the piece rotated and corrected by checkBounds.
RotatedAndBounded ==
  checkBounds([Lift(state) EXCEPT !.currentTetromino = rotateShape(state.currentTetromino)])

\* C22 (rotation rejection): if the rotated and bounds-corrected piece would
\* overlap an occupied grid cell, an up input returns the original state
\* unchanged; an accepted rotation neither commits the piece over occupied
\* grid cells nor leaves it on them.
C22_RotationRejectsOverlap ==
  [][Up =>
       IF OverlapsGrid(RotatedAndBounded)
       THEN state' = state /\ landing' = <<>>
       ELSE IF landing' # <<>>
            THEN ~Overlaps(landing'[1].shape, landing'[1].row, landing'[1].col,
                           landing'[1].grid)
            ELSE ~OverlapsGrid(state')]_vars

\* The transpose of a square matrix, and a matrix with each row reversed.
Transpose(t) == [j \in 1..Len(t[1]) |-> [i \in 1..Len(t) |-> t[i][j]]]
ReverseRows(t) == [i \in 1..Len(t) |-> [k \in 1..Len(t[i]) |-> t[i][Len(t[i]) - k + 1]]]

\* The cells of matrix t that hold the value v.
CellsWith(t, v) == {cell \in (1..Len(t)) \X (1..Len(t[1])) : t[cell[1]][cell[2]] = v}

\* R is the clockwise quarter turn of the n x n matrix S (indices from 1:
\* R[j][k] = S[n + 1 - k][j]).
IsQuarterTurn(S, R) ==
  LET n == Len(S)
  IN  /\ Len(R) = n
      /\ \A j \in 1..n : Len(R[j]) = n
      /\ \A j \in 1..n : \A k \in 1..n : R[j][k] = S[n + 1 - k][j]

\* C23 (the rotation transform): the rotation of the piece in play, taken in
\* any of its orientations, is the clockwise quarter turn, equals the
\* transpose with each row reversed, and holds every value as many times as
\* the shape it was made from.
C23_ClockwiseQuarterTurn ==
  \A k \in 0..3 :
     \E S \in {rotateTimes(state.currentTetromino, k)} :
        \E R \in {rotateShape(S)} :
           /\ IsQuarterTurn(S, R)
           /\ R = ReverseRows(Transpose(S))
           /\ \A v \in 0..Len(Tetrominos) :
                 Cardinality(CellsWith(R, v)) = Cardinality(CellsWith(S, v))

\* C23's case: the last input of the played opening was an up input that
\* turned the piece in play out of its catalog orientation and left it falling.
C23_Witness ==
  /\ pc = "score" /\ landing = <<>>
  /\ free = 0 /\ pos > 0
  /\ Scenarios[scenario].events[pos] = "up"
  /\ \A k \in 1..Len(Tetrominos) : state.currentTetromino # Tetrominos[k]

\* The state is the one a spawn has produced: the initial state, or the state
\* an event returned after landing a piece.
JustSpawned == (pc = "event" /\ pos = 0 /\ free = 0) \/ (pc = "score" /\ landing # <<>>)

\* The index of the first row of shape t that holds a nonzero cell.
FirstOccupiedRow(t) ==
  CHOOSE i \in 0..(Len(t) - 1) :
     /\ \E cell \in CellsOf(t, 0, 0) : cell[1] = i
     /\ \A cell \in CellsOf(t, 0, 0) : cell[1] >= i

\* C24 (spawn anchor): right after createNewState, fresh or on a landing, the
\* n x n piece in play has col = floor((GRID_WIDTH - n) / 2) and row = minus
\* the index of its first non-empty shape row: that row lies on grid row 0
\* and every occupied cell is inside the grid.
C24_SpawnAnchor ==
  JustSpawned =>
     /\ state.col * 2 \in {GRID_WIDTH - Len(state.currentTetromino),
                           GRID_WIDTH - Len(state.currentTetromino) - 1}
     /\ state.row = -FirstOccupiedRow(state.currentTetromino)
     /\ \E cell \in PieceCells : cell[1] = 0
     /\ \A cell \in PieceCells : InGrid(cell)

\* C24's case: a landing has spawned a piece whose box does not split the grid
\* width evenly, so that the centre column is rounded down.
C24_Witness ==
  /\ pc = "score" /\ landing # <<>>
  /\ ~state.gameEnd
  /\ (GRID_WIDTH - Len(state.currentTetromino)) % 2 = 1

\* C25 (landing frame): an event that lands a piece leaves score, level and
\* linesCleared as they were, leaves every nonzero grid cell with its value,
\* and turns a grid cell from 0 to nonzero only under a nonzero cell of the
\* landing piece, whose colour the cell takes.
C25_LandingFrame ==
  [][(pc = "event" /\ landing' # <<>>) =>
       /\ state'.score = state.score
       /\ state'.level = state.level
       /\ state'.linesCleared = state.linesCleared
       /\ landing'[1].grid = state.grid
       /\ \A r \in 1..GRID_HEIGHT : \A c \in 1..GRID_WIDTH :
             /\ state.grid[r][c] # 0 => state'.grid[r][c] = state.grid[r][c]
             /\ (state.grid[r][c] = 0 /\ state'.grid[r][c] # 0) =>
                   /\ <<r - 1, c - 1>> \in CellsOf(landing'[1].shape, landing'[1].row,
                                                   landing'[1].col)
                   /\ state'.grid[r][c] =
                         landing'[1].shape[r - landing'[1].row][c - landing'[1].col]]_vars

\* C25's case: a piece has landed with one of its cells over a block, where
\* the old value of the grid cell and the colour of the piece compete.
C25_Witness ==
  /\ pc = "score" /\ landing # <<>>
  /\ Overlaps(landing[1].shape, landing[1].row, landing[1].col, landing[1].grid)

(***************************************************************************)
(* Line clearing (specification Spec)                                      *)
(***************************************************************************)
\* The topmost of the full rows of grid (there is one).
TopFullRow(grid) == CHOOSE r \in FullRows(grid) : \A k \in FullRows(grid) : r <= k

\* The updateScore step removes row r alone: an empty row on top, the rows
\* above r one row down, the rows below r where they were; the score grows
\* by 10.
RemovesRow(r) ==
  /\ state'.grid = <<[j \in 1..GRID_WIDTH |-> 0]>>
                   \o [k \in 1..(GRID_HEIGHT - 1) |->
                         IF k <= r THEN state.grid[k] ELSE state.grid[k + 1]]
  /\ FullRows(state'.grid) = FullRows(state.grid) \ {r}
  /\ state'.score = state.score + 10

\* C26 as stated: updateScore returns its input unchanged exactly when no row
\* is full; with several rows full it removes the topmost full row alone,
\* adds 10 to score and one to linesCleared.
C26_ClearsTopmostAddsOne ==
  [][(pc = "score" /\ ~failed) =>
       /\ (state' = state) <=> (FullRows(state.grid) = {})
       /\ Cardinality(FullRows(state.grid)) > 1 =>
             /\ RemovesRow(TopFullRow(state.grid))
             /\ state'.linesCleared = state.linesCleared + 1]_vars

\* C26 (amended): as stated, except that linesCleared, when it is 9, returns
\* to 0 and level grows by one.
C26_ClearsTopmost ==
  [][(pc = "score" /\ ~failed) =>
       /\ (state' = state) <=> (FullRows(state.grid) = {})
       /\ Cardinality(FullRows(state.grid)) > 1 =>
             /\ RemovesRow(TopFullRow(state.grid))
             /\ IF state.linesCleared = 9
                THEN state'.linesCleared = 0 /\ state'.level = state.level + 1
                ELSE /\ state'.linesCleared = state.linesCleared + 1
                     /\ state'.level = state.level]_vars

\* C26's case: a landing has completed two rows with a row between them that
\* is not full.
C26_Witness ==
  /\ pc = "score" /\ landing # <<>>
  /\ \E r \in FullRows(state.grid) :
        r + 2 \in FullRows(state.grid) /\ r + 1 \notin FullRows(state.grid)

(***************************************************************************)
\* After `more` further events, each followed by updateScore, the grid of s
\* has no full row left and the score is target, whatever the events are,
\* provided none of them completes another row.
RECURSIVE ClearedAfter(_, _, _)
ClearedAfter(s, more, target) ==
  IF more = 0
  THEN FullRows(s.grid) = {} /\ s.score = target
  ELSE \A e \in Events : \A now \in Clock :
          \E out \in {processEvent(e, s, now)} :
             (~out.err /\ FullRows(out.grid) = FullRows(s.grid)) =>
                /\ Cardinality(FullRows(updateScore(out).grid)) = more - 1
                /\ ClearedAfter(updateScore(out), more - 1, target)

\* C27 (rows completed together): a landing into a grid without full rows
\* completes at most four rows; of k completed rows the updateScore call of
\* the landing event leaves k - 1, each further event's call removes one
\* more, and after k events, the landing event counted, none is left and the
\* score has grown by 10 * k, provided no other row is completed meanwhile.
\* So no full row stays while events arrive.
C27_RowsClearedWithinKEvents ==
  (pc = "score" /\ ~failed /\ landing # <<>> /\ FullRows(landing[1].grid) = {}) =>
     \E k \in {Cardinality(FullRows(state.grid))} :
        /\ k <= 4
        /\ k >= 1 =>
              \E first \in {updateScore(Lift(state))} :
                 /\ Cardinality(FullRows(first.grid)) = k - 1
                 /\ ClearedAfter(first, k - 1, state.score + 10 * k)

\* C27's case: the opening was played to the landing that completes four
\* rows of a game without a line so far; four events later the last of the
\* four has been removed.
C27_Witness ==
  /\ pc = "event" /\ ~failed
  /\ free = 4 /\ state.score = 40 /\ state.linesCleared = 4
  /\ FullRows(state.grid) = {}

(* Bounds correction (specification Spec)                                  *)
(***************************************************************************)
\* The states checkBounds is called with while processEvent handles event e
\* in state s: the outcome of checkCollisions in tick and move, and in rotate
\* first the turned piece at the old anchor, then the outcome of rotate.
BoundsArgs(e, s, now) ==
  CASE e \in {"tick", "down"} ->
         {checkCollisions([s EXCEPT !.row = s.row + 1], "none", now)}
    [] e \in {"left", "right"} -> {checkCollisions(s, e, now)}
    [] e = "up" ->
         {[s EXCEPT !.currentTetromino = rotateShape(s.currentTetromino)],
          rotate(s, now)}

\* The columns and the rows of shape t that hold a nonzero cell (from 0).
OccupiedCols(t) == {cell[2] : cell \in CellsOf(t, 0, 0)}
OccupiedRows(t) == {cell[1] : cell \in CellsOf(t, 0, 0)}

\* The anchors at which the occupied columns or rows occ lie within 0..size-1.
LegalAnchors(occ, len, size) ==
  {c \in (-len)..size : \A j \in occ : c + j >= 0 /\ c + j < size}

Distance(a, b) == IF a >= b THEN a - b ELSE b - a

\* x is the member of legal nearest to y.
IsNearest(x, legal, y) ==
  x \in legal /\ \A d \in legal : Distance(x, y) <= Distance(d, y)

\* C28 (clamping; a down input makes the call a tick makes): each call of
\* checkBounds made while an event is handled
\* returns the legal anchor nearest to the one it is given: the piece is
\* shifted by the least number of columns and rows that brings its occupied
\* cells inside the grid, and it is left where it is only if they are inside.
C28_ClampsToNearest ==
  (pc = "event" /\ ~failed) =>
     \A now \in Clock :
        \A a \in UNION {BoundsArgs(e, Lift(state), now) : e \in Events \ {"down"}} :
           \E b \in {checkBounds(a)} :
              \E cols \in {OccupiedCols(a.currentTetromino)} :
                 \E rows \in {OccupiedRows(a.currentTetromino)} :
                    /\ ~a.err /\ ~b.err
                    /\ IsNearest(b.col, LegalAnchors(cols, Len(a.currentTetromino),
                                                     GRID_WIDTH), a.col)
                    /\ IsNearest(b.row, LegalAnchors(rows, Len(a.currentTetromino),
                                                     GRID_HEIGHT), a.row)
                    /\ b.currentTetromino = a.currentTetromino

\* C28's case: the piece stands where turning it pushes it two columns over a
\* side wall, from where checkBounds brings it back.
C28_Witness ==
  /\ pc = "event" /\ ~failed
  /\ \E a \in {[Lift(state) EXCEPT !.currentTetromino = rotateShape(state.currentTetromino)]} :
        Distance(checkBounds(a).col, a.col) = 2

(***************************************************************************)
(* Lateral moves (specification Spec)                                      *)
(***************************************************************************)
\* The step shifts the falling piece by deltaCol and leaves its row and shape.
ShiftedBy(deltaCol) ==
  /\ state'.col = state.col + deltaCol
  /\ state'.row = state.row
  /\ state'.currentTetromino = state.currentTetromino

\* C29 as stated: a left or right input that changes the state changes col by
\* one in the pressed direction and leaves row and shape unchanged, and the
\* grid cell one column in that direction of every occupied cell exists and
\* is 0.
C29_MoveShiftsOneColumn ==
  [][/\ (Left /\ state' # state) => ShiftedBy(-1) /\ ~Blocked(-1)
     /\ (Right /\ state' # state) => ShiftedBy(1) /\ ~Blocked(1)]_vars

\* C29 (amended): a left or right input that changes the state is given only
\* where the grid cell one column in that direction of every occupied cell
\* exists and is 0; it changes col by one in the pressed direction and leaves
\* row and shape unchanged, unless the piece comes to rest on a block at the
\* new column: then it is landed there, one column over in its old row and
\* shape, and the next piece is spawned.
C29_MoveShiftsOrLands ==
  [][/\ (Left /\ state' # state) =>
          /\ ~Blocked(-1)
          /\ IF landing' = <<>> THEN ShiftedBy(-1) ELSE LandedBeside(-1)
     /\ (Right /\ state' # state) =>
          /\ ~Blocked(1)
          /\ IF landing' = <<>> THEN ShiftedBy(1) ELSE LandedBeside(1)]_vars

\* C29's case: the last input of the played opening was a left or right input
\* that has moved the piece, still falling, out of its spawn column.
C29_Witness ==
  /\ pc = "score" /\ landing = <<>>
  /\ free = 0 /\ pos > 0
  /\ Scenarios[scenario].events[pos] \in {"left", "right"}
  /\ state.col # (GRID_WIDTH - Len(state.currentTetromino)) \div 2

(***************************************************************************)
(* The falling piece and the blocks (specification Spec)                   *)
(***************************************************************************)
\* C30 (no overlap while falling): in every reachable state of a game that has
\* not ended, right after a spawn and right after updateScore included, no
\* nonzero cell of currentTetromino at (row, col) lies on a nonzero grid cell.
C30_NoOverlapWhileFalling ==
  ~state.gameEnd => ~Overlaps(state.currentTetromino, state.row, state.col, state.grid)

(***************************************************************************)
(* Score accounting (specification Spec)                                   *)
(***************************************************************************)
\* linesCleared is in 0..9 and score counts ten points for each line removed.
ScoreAccounted ==
  /\ state.linesCleared >= 0 /\ state.linesCleared <= 9
  /\ state.score = 10 * (10 * state.level + state.linesCleared)

\* C31 (score accounting): in every state reachable from createNewState(null)
\* linesCleared is in 0..9 and score = 10 * (10 * level + linesCleared); the
\* score changes only in updateScore steps and then grows by 10.
C31_ScoreAccounting ==
  /\ []ScoreAccounted
  /\ [][state'.score # state.score =>
          pc = "score" /\ state'.score = state.score + 10]_vars

\* C31's case: the tenth line has been removed, and linesCleared is 0 again
\* at level 1.
C31_Witness ==
  pc = "event" /\ state.score = 100 /\ state.level = 1 /\ state.linesCleared = 0

(***************************************************************************)
(* A fresh game in which the events of every piece are counted.  The game  *)
(* starts with any of the seven pieces; the environment delivers tick and  *)
(* down events freely and at most MaxInputs left, right and up inputs,     *)
(* until MaxPieces pieces have landed.  Here pos counts the tick and down  *)
(* events the present piece has been given since its spawn (the one that   *)
(* landed it included), free the left, right and up inputs of the run, and *)
(* scenario the pieces landed.                                             *)
(***************************************************************************)
MaxInputs == 3

MaxPieces == 2

InitFall ==
  \E start \in DropClock :
     /\ \E new \in {createNewState(Null, start)} :
           state = Core(new) /\ failed = new.err
     /\ pc = "event"
     /\ landing = <<>>
     /\ scenario = 0
     /\ pos = 0
     /\ free = 0

\* The tick and down events given to the piece that is falling now: none yet
\* if the last event landed its predecessor.
SinceSpawn == IF landing # <<>> THEN 0 ELSE pos

\* The host's fold applies processEvent to event e; fall tells a tick or down
\* event from a left, right or up input.
Deliver(e, fall) ==
  /\ pc = "event" /\ ~failed /\ scenario < MaxPieces
  /\ fall \/ free < MaxInputs
  /\ \E now \in Clock :
        \E out \in {processEvent(e, Lift(state), now)} :
            /\ failed' = out.err
            /\ state' = IF out.err THEN state ELSE Core(out)
            /\ landing' = IF out.err THEN <<>> ELSE out.landed
            /\ scenario' = IF out.err \/ out.landed = <<>> THEN scenario
                           ELSE scenario + 1
  /\ pos' = IF fall THEN SinceSpawn + 1 ELSE SinceSpawn
  /\ free' = IF fall THEN free ELSE free + 1
  /\ pc' = "score"

FallTick == Deliver("tick", TRUE)
FallDown == Deliver("down", TRUE)
SteerLeft == Deliver("left", FALSE)
SteerRight == Deliver("right", FALSE)
SteerUp == Deliver("up", FALSE)

NextFall ==
  FallTick \/ FallDown \/ SteerLeft \/ SteerRight \/ SteerUp \/ UpdateScore

SpecFall == InitFall /\ [][NextFall]_vars

\* C32 (bounded landing): whatever left, right and up inputs are interleaved,
\* a piece has been landed when it has been given GRID_HEIGHT tick or down
\* events since its spawn: it is never given more, and it is still falling
\* only after fewer.
C32_LandedWithinGridHeight ==
  /\ pos <= GRID_HEIGHT
  /\ landing = <<>> => pos < GRID_HEIGHT

\* C32's case: a piece that was moved or turned on its way has landed with its
\* nineteenth tick or down event, the longest fall there is.
C32_Witness ==
  /\ pc = "score" /\ landing # <<>>
  /\ pos = GRID_HEIGHT - 1
  /\ landing[1].col # (GRID_WIDTH - Len(landing[1].shape)) \div 2

(***************************************************************************)
(* Descent between two landings (specification Spec)                       *)
(***************************************************************************)
\* C33 (monotone descent): between two landings the anchor row never
\* decreases: a tick or down that does not land raises row by exactly 1, a
\* left or right that does not land leaves row unchanged, and a rotation that
\* does not land does not lower row.
C33_MonotoneDescent ==
  [][landing' = <<>> =>
       /\ (Tick \/ Down) => state'.row = state.row + 1
       /\ (Left \/ Right) => state'.row = state.row
       /\ Up => state'.row >= state.row]_vars

\* C33's case: the last input of the played opening was a rotation that has
\* turned the piece without landing it.
C33_Witness ==
  /\ pc = "score" /\ landing = <<>>
  /\ free = 0 /\ pos > 0
  /\ Scenarios[scenario].events[pos] = "up"
  /\ \A k \in 1..Len(Tetrominos) : state.currentTetromino # Tetrominos[k]

(***************************************************************************)
(* Immediate lock (specification Spec)                                     *)
(***************************************************************************)
\* The piece of state s lies on the ground or directly on a block.
AtRest(s) ==
  \/ \E cell \in CellsOf(s.currentTetromino, s.row, s.col) :
        cell[1] = GRID_HEIGHT - 1
  \/ BlockBelow(s)

\* C34 (immediate lock): no state returned by processEvent has a falling piece
\* (the piece of a game that has not ended) that is on the ground or that has
\* an occupied grid cell directly below one of its cells: the tick, down,
\* lateral move or rotation that takes the piece there lands it in the same
\* call.
C34_ImmediateLock ==
  [][(pc' = "score" /\ ~state'.gameEnd) => ~AtRest(state')]_vars

(***************************************************************************)
(* What a step leaves alone (specification Spec)                           *)
(***************************************************************************)
\* The step leaves the fields named in fields as they are.
Keeps(fields) == \A f \in fields : state'[f] = state[f]

\* C35 (non-landing frame): a processEvent call that lands no piece leaves grid,
\* score, level, linesCleared, nextTetromino, seed and gameEnd unchanged; an
\* updateScore call leaves row, col, currentTetromino, nextTetromino, seed and
\* gameEnd unchanged.
C35_NonLandingFrame ==
  [][/\ (pc = "event" /\ landing' = <<>>) =>
          Keeps({"grid", "score", "level", "linesCleared", "nextTetromino",
                 "seed", "gameEnd"})
     /\ pc = "score" =>
          Keeps({"row", "col", "currentTetromino", "nextTetromino", "seed",
                 "gameEnd"})]_vars

\* C35's case: an event has moved the piece without landing it, and the
\* updateScore call after it has removed a row that a landing before had left
\* full.
C35_Witness ==
  /\ pc = "event" /\ landing = <<>>
  /\ free = 2 /\ state.score = 20 /\ state.linesCleared = 2

(***************************************************************************)
(* The shapes in play (specification Spec)                                 *)
(***************************************************************************)
\* The catalog pieces in their four orientations.
CatalogRotations ==
  {rotateTimes(Tetrominos[k], n) : k \in 1..Len(Tetrominos), n \in 0..3}

\* t is a square matrix with exactly four nonzero cells, all of one colour
\* value in 1..7.
FourCellsOneColour(t) ==
  /\ \A i \in 1..Len(t) : Len(t[i]) = Len(t)
  /\ Cardinality({x \in (1..Len(t)) \X (1..Len(t)) : t[x[1]][x[2]] # 0}) = 4
  /\ \E v \in 1..7 :
        \A i \in 1..Len(t) : \A j \in 1..Len(t) : t[i][j] \in {0, v}

\* C36 (shape invariant): in every reachable state nextTetromino is one of the
\* seven catalog matrices, unrotated, and currentTetromino is one of the four
\* rotations of a catalog matrix: a square matrix with exactly four nonzero
\* cells, all carrying the same colour value in 1..7.
C36_ShapeInvariant ==
  /\ \E k \in 1..Len(Tetrominos) : state.nextTetromino = Tetrominos[k]
  /\ state.currentTetromino \in CatalogRotations
  /\ FourCellsOneColour(state.currentTetromino)

\* C36's case: three up inputs have brought the piece in play into the
\* orientation a quarter turn before its catalog orientation.
C36_Witness ==
  \E k \in 1..Len(Tetrominos) :
     /\ state.currentTetromino = rotateTimes(Tetrominos[k], 3)
     /\ state.currentTetromino # rotateTimes(Tetrominos[k], 1)

(***************************************************************************)
(* A game fed tick events only until it ends.  The timer of the host keeps *)
(* firing: every tick is followed by updateScore and by the next tick, and *)
(* the host stops at gameEnd.  Here pos counts the ticks, at most MaxTicks *)
(* of them.                                                                *)
(***************************************************************************)
MaxTicks == 200

\* Values of Date.now() at game creation: those of DropClock and of the
\* Scenarios.
TickClock == DropClock \cup {Scenarios[sc].now : sc \in DOMAIN Scenarios}

InitTicks ==
  \E start \in TickClock :
     /\ \E new \in {createNewState(Null, start)} :
           state = Core(new) /\ failed = new.err
     /\ pc = "event"
     /\ landing = <<>>
     /\ scenario = 1
     /\ pos = 0
     /\ free = 0

TimerTick ==
  /\ pc = "event" /\ ~failed /\ ~state.gameEnd /\ pos < MaxTicks
  /\ \E now \in Clock :
        \E out \in {processEvent("tick", Lift(state), now)} :
            /\ failed' = out.err
            /\ state' = IF out.err THEN state ELSE Core(out)
            /\ landing' = IF out.err THEN <<>> ELSE out.landed
  /\ pos' = pos + 1
  /\ pc' = "score"
  /\ UNCHANGED <<scenario, free>>

NextTicks == TimerTick \/ UpdateScore

\* ENABLED <<NextTicks>>_vars, written out: a step of NextTicks changes pc.
CanStep ==
  \/ pc = "score" /\ ~failed
  \/ pc = "event" /\ ~failed /\ ~state.gameEnd /\ pos < MaxTicks

\* Weak fairness of NextTicks (WF_vars(NextTicks) with ENABLED written out):
\* the timer and the fold do not stop while a step is possible.
TimerKeepsFiring == []<>(~CanStep) \/ []<><<NextTicks>>_vars

SpecTicks == InitTicks /\ [][NextTicks]_vars /\ TimerKeepsFiring

\* C37 (game termination): from a fresh state, fed tick events only with
\* updateScore after each, gameEnd becomes true after finitely many ticks.
C37_GameEnds == <>state.gameEnd

\* C37's case: the ticks have stacked the pieces up to the spawn rows and the
\* game has ended, with no row removed on the way.
C37_Witness ==
  /\ pc = "event" /\ state.gameEnd /\ pos > 0 /\ state.score = 0
  /\ \E c \in 1..GRID_WIDTH : state.grid[3][c] # 0

(***************************************************************************)
(* The host fold with an environment that may also deliver an InputEvent   *)
(* whose direction is none of left, right, down, up.                       *)
(***************************************************************************)
\* A direction outside the Direction type.
MalformedDirection == "sideways"

\* processEvent on an InputEvent with the malformed direction.
Malformed == Process(MalformedDirection)

NextMalformed == Next \/ Malformed

SpecMalformed == Init /\ [][NextMalformed]_vars

\* C15 (malformed input): processEvent given an input event whose direction is
\* outside {left, right, down, up} neither fails nor returns a non-state value;
\* it returns the input state unchanged.
C15_MalformedIsNoOp ==
  [][Malformed => (~failed' /\ state' = state)]_vars


=============================================================================
